---- MODULE Spec2Model ----
(***************************************************************************)
(* Verification model of the ingestion and resilience pipeline of the     *)
(* Universal Web Scraping System (uwss):                                   *)
(*   - the identity resolver   (src/uwss/store/deduplication.py)           *)
(*   - the arXiv PDF fetcher   (src/uwss/fetch/arxiv_pdf.py)               *)
(*   - the crawl spiders       (src/uwss/crawl/scrapy_project/spiders)     *)
(*   - the relevance scorer    (src/uwss/score/__init__.py)                *)
(* Each component has its own specification over the shared variable list;*)
(* the variables of the other components stay at their initial values.    *)
(***************************************************************************)
EXTENDS Integers, Sequences, FiniteSets, TLC

VARIABLES
    \* ---- identity resolver ----
    store,          \* the documents table seen by the resolver: sequence of rows, index = id
    calls,          \* number of resolve calls made so far
    lastCall,       \* the last resolve call: candidate, check_title, matched or new id, what was done
    \* ---- fetcher ----
    db,             \* committed store: documents rows and the visited_urls ledger
    sess,           \* the rows as the open SQLAlchemy session holds them (uncommitted changes included)
    final,          \* file system: the file at each document's final path fpath
    part,           \* file system: the file at each document's temporary path tmp_path
    cfg,            \* arguments of the running fetch_arxiv_pdfs call
    pc,             \* position of the fetcher in fetch_arxiv_pdfs
    rows,           \* the row-set materialised by q.all()
    loc,            \* locals of the loop body: i, k, head, chosen_url, url, attempt, resp, sha, total_bytes
    m,              \* the metrics counters of the running call
    log,            \* history of the current document in this run: its HEADs and GETs
    reqs,           \* number of HTTP requests the network has answered so far
    \* ---- crawler ----
    spider,         \* which spider runs: "research", "pdf" or "seed" ("none" before the first run)
    frontier,       \* requests scheduled and not yet answered: [url, depth]
    seen,           \* URLs the scheduler has already accepted in this run
    pages_crawled,  \* the spider's page counter
    ledger,         \* visited_urls table
    crawlDocs,      \* documents table as the spiders fill it: sequence of source_url
    yielded,        \* every request the spider has yielded in this run
    \* ---- concurrent page handlers ----
    hs,             \* each handler's position in parse and the URL it handles
    hdocs,          \* documents table shared by the handlers: sequence of source_url
    hledger,        \* visited_urls table shared by the handlers
    hstarts,        \* number of handler invocations so far
    htimes,         \* first_seen, last_seen and status of each visited_urls row
    hnow,           \* the clock datetime.utcnow() reads
    \* ---- candidate URL construction ----
    cand_in,        \* the (landing_url, pdf_url) pair last handed to _candidate_pdf_urls
    cand_out,       \* the list it returned
    \* ---- relevance scorer ----
    sdocs,          \* the documents table as score_documents reads and writes it
    scalls,         \* arguments of the score_documents calls made so far, oldest first
    sruns,          \* number of score_documents calls made so far
    \* ---- link selection of the spiders ----
    lk_in,          \* the spider and the anchors of the page whose links were last selected
    lk_out,         \* the URLs of the requests parse yielded for that page, in order
    lk_calls,       \* number of pages whose links were selected so far
    \* ---- relevance gate of the spiders ----
    gate_in,        \* the spider, its keywords and the page last put to the gate
    gate_out        \* what parse did with it: "persist", "blocked" or "irrelevant"

dedupVars == <<store, calls, lastCall>>
fetchVars == <<db, sess, final, part, cfg, pc, rows, loc, m, log, reqs>>
crawlVars == <<spider, frontier, seen, pages_crawled, ledger, crawlDocs, yielded>>
handlerVars == <<hs, hdocs, hledger, hstarts, htimes, hnow>>
candVars == <<cand_in, cand_out>>
scoreVars == <<sdocs, scalls, sruns>>
linkVars == <<lk_in, lk_out, lk_calls>>
gateVars == <<gate_in, gate_out>>

(***************************************************************************)
(* Strings.  A string is a sequence of one-character strings; Python's    *)
(* None is the distinguished value None, which is falsy like "".          *)
(***************************************************************************)
None == <<"None">>

Truthy(s) == s # None /\ s # <<>>

\* str.lower() on one character of the alphabet used by the inputs
LowerChar(c) ==
    CASE c = "A" -> "a"
      [] c = "B" -> "b"
      [] c = "E" -> "e"
      [] c = "H" -> "h"
      [] c = "K" -> "k"
      [] c = "X" -> "x"
      [] OTHER -> c

Lower(s) == [i \in 1..Len(s) |-> LowerChar(s[i])]

RECURSIVE LStrip(_)
LStrip(s) == IF s # <<>> /\ Head(s) = " " THEN LStrip(Tail(s)) ELSE s

RECURSIVE RStrip(_)
RStrip(s) == IF s # <<>> /\ s[Len(s)] = " " THEN RStrip(SubSeq(s, 1, Len(s) - 1)) ELSE s

\* str.strip()
Strip(s) == RStrip(LStrip(s))

\* " ".join(s.split()): runs of blanks collapse to one blank (s is already stripped)
RECURSIVE Collapse(_)
Collapse(s) ==
    IF Len(s) < 2 THEN s
    ELSE IF s[1] = " " /\ s[2] = " " THEN Collapse(Tail(s))
    ELSE <<s[1]>> \o Collapse(Tail(s))

\* _normalize_title
normalize_title(title) ==
    IF ~Truthy(title) THEN <<>> ELSE Collapse(Strip(Lower(title)))

\* the normalisation find_duplicate applies to the candidate's DOI
NormDoi(doi) == Lower(Strip(doi))

(***************************************************************************)
(* Identity resolver                                                       *)
(***************************************************************************)
MaxCalls == 3

DoiInputs == {None, <<"a">>, <<"A", " ">>, <<"b">>}
UrlInputs == {None, <<"u">>, <<"u", " ">>}
OaInputs  == {None, <<"closed">>, <<"abstract_only">>, <<"open">>, <<"fulltext_pdf">>}

\* relevance_score, in tenths; NoScore is the null column
NoScore == -1
ScoreInputs == {NoScore, 3, 8}

\* the fields a producer fills besides the identity fields: none of them, or all of them
Profile(full, t) ==
    [title        |-> IF full THEN t ELSE None,
     abstract     |-> IF full THEN <<"n">> ELSE None,
     authors      |-> IF full THEN <<"n">> ELSE None,
     year         |-> IF full THEN <<"n">> ELSE None,
     affiliations |-> IF full THEN <<"n">> ELSE None,
     keywords     |-> IF full THEN <<"n">> ELSE None,
     pdf_url      |-> IF full THEN <<"p">> ELSE None]

MergeRec(a, b) == [k \in (DOMAIN a) \cup (DOMAIN b) |-> IF k \in DOMAIN a THEN a[k] ELSE b[k]]

Candidates ==
    { MergeRec([doi |-> d, source_url |-> u, oa_status |-> o, relevance_score |-> NoScore],
               Profile(f, t)) :
        d \in DoiInputs, u \in UrlInputs, o \in {None}, f \in BOOLEAN, t \in {<<"X">>} }
    \cup
    { MergeRec([doi |-> d, source_url |-> u, oa_status |-> o, relevance_score |-> r],
               Profile(TRUE, <<"x", " ">>)) :
        d \in {None, <<"b">>}, u \in {None}, o \in OaInputs, r \in ScoreInputs }

\* Strategy 1 of find_duplicate: ids of the rows whose stored doi equals the normalised candidate doi
DoiMatches(metadata) ==
    IF Truthy(metadata.doi) /\ Truthy(NormDoi(metadata.doi))
    THEN LET doi == NormDoi(metadata.doi) IN {i \in 1..Len(store) : store[i].doi = doi}
    ELSE {}

\* Strategy 2: rows whose stored source_url equals the stripped candidate source_url
UrlMatches(metadata) ==
    IF Truthy(metadata.source_url) /\ Truthy(Strip(metadata.source_url))
    THEN LET source_url == Strip(metadata.source_url) IN {i \in 1..Len(store) : store[i].source_url = source_url}
    ELSE {}

\* Strategy 3: rows whose normalised title equals the normalised candidate title
TitleMatches(metadata) ==
    IF Truthy(metadata.title) /\ Truthy(normalize_title(metadata.title))
    THEN LET title == normalize_title(metadata.title) IN
         {i \in 1..Len(store) : Truthy(store[i].title) /\ normalize_title(store[i].title) = title}
    ELSE {}

\* variant: the source_url strategy is tried before the DOI strategy
find_duplicate_url_first(metadata, check_doi, check_source_url, check_title) ==
    IF check_source_url /\ UrlMatches(metadata) # {} THEN UrlMatches(metadata)
    ELSE IF check_doi /\ DoiMatches(metadata) # {} THEN DoiMatches(metadata)
    ELSE IF check_title /\ TitleMatches(metadata) # {} THEN TitleMatches(metadata)
    ELSE {}

\* find_duplicate: the set of rows it may return ({} = returns None).  A query without
\* ORDER BY hands back any of the matching rows first.
find_duplicate(metadata, check_doi, check_source_url, check_title) ==
    IF check_doi /\ DoiMatches(metadata) # {} THEN DoiMatches(metadata)
    ELSE IF check_source_url /\ UrlMatches(metadata) # {} THEN UrlMatches(metadata)
    ELSE IF check_title /\ TitleMatches(metadata) # {} THEN TitleMatches(metadata)
    ELSE {}

\* variant: a non-empty candidate value always wins
FillAlways(old, new) == IF Truthy(new) THEN new ELSE old

FillIfEmpty(old, new) == IF ~Truthy(old) /\ Truthy(new) THEN new ELSE old

\* variant: the candidate's status always replaces the stored one
ReplaceOa(old, new) == IF Truthy(new) THEN new ELSE old

\* lines 152-156: oa_status is raised to the candidate's open status, never lowered
UpgradeOa(old, new) ==
    IF Truthy(new)
       /\ old \in {None, <<"closed">>, <<"abstract_only">>}
       /\ new \in {<<"open">>, <<"fulltext_pdf">>}
    THEN new ELSE old

\* merge_document_metadata
merge_document_metadata(existing, new_metadata) ==
    [existing EXCEPT
        !.title        = FillIfEmpty(@, new_metadata.title),
        !.abstract     = FillIfEmpty(@, new_metadata.abstract),
        !.authors      = FillIfEmpty(@, new_metadata.authors),
        !.doi          = FillIfEmpty(@, new_metadata.doi),
        !.year         = FillIfEmpty(@, new_metadata.year),
        !.affiliations = FillIfEmpty(@, new_metadata.affiliations),
        !.keywords     = FillIfEmpty(@, new_metadata.keywords),
        !.oa_status    = UpgradeOa(@, new_metadata.oa_status),
        !.pdf_url      = FillIfEmpty(@, new_metadata.pdf_url)]

\* Document(**metadata): the row holds the candidate's fields as given
InsertDocument(metadata) == metadata

DedupInit ==
    /\ store = <<>>
    /\ calls = 0
    /\ lastCall = [op |-> "none", id |-> 0, cand |-> None, check_title |-> FALSE]

\* one identity-resolution call that finds no duplicate and inserts
ResolveInsert(metadata, check_title) ==
    /\ calls < MaxCalls
    /\ find_duplicate(metadata, TRUE, TRUE, check_title) = {}
    /\ store' = Append(store, InsertDocument(metadata))
    /\ calls' = calls + 1
    /\ lastCall' = [op |-> "insert", id |-> Len(store) + 1, cand |-> metadata,
                    check_title |-> check_title]

\* one identity-resolution call that finds a duplicate and merges into it
ResolveMerge(metadata, check_title) ==
    /\ calls < MaxCalls
    /\ \E id \in find_duplicate(metadata, TRUE, TRUE, check_title) :
        /\ store' = [store EXCEPT ![id] = merge_document_metadata(@, metadata)]
        /\ lastCall' = [op |-> "merge", id |-> id, cand |-> metadata, check_title |-> check_title]
    /\ calls' = calls + 1

(***************************************************************************)
(* Resilient artifact fetcher: fetch_arxiv_pdfs                            *)
(***************************************************************************)
NDocs == 2
MaxChunks == 2
\* the network answers MaxHttp requests; every later request raises a connection error
MaxHttp == 6

Ids == 1..NDocs

\* URLs.  kind "pdf" is a URL with /pdf/<id> in it, kind "abs" one with /abs/<id>, kind
\* "ext" a URL with neither.  The identifier is <base><ver>; ver = 0 stands for an
\* identifier without a version suffix.  style "new" is an identifier of the form
\* NNNN.NNNNN, style "old" any other (such as hep-th/9901001).  canon tells whether the
\* string is exactly https://arxiv.org/pdf/<base><ver>.pdf, the form the fetcher builds.
NoUrl == [kind |-> "none", base |-> 0, ver |-> 0, style |-> "new", canon |-> FALSE]
Url(kind, base, ver, style, canon) ==
    [kind |-> kind, base |-> base, ver |-> ver, style |-> style, canon |-> canon]
ArxivPdf(base, ver) == Url("pdf", base, ver, "new", TRUE)
ArxivAbs(base, ver) == Url("abs", base, ver, "new", FALSE)
ExtUrl(n) == Url("ext", n, 0, "new", FALSE)

NoId == [base |-> 0, ver |-> 0, style |-> "new"]

\* _guess_arxiv_id: the identifier after /pdf/ (".pdf" removed) or after /abs/, looking
\* at pdf_url first and landing_url second
guess_arxiv_id(landing_url, pdf_url) ==
    IF pdf_url.kind \in {"pdf", "abs"}
    THEN [base |-> pdf_url.base, ver |-> pdf_url.ver, style |-> pdf_url.style]
    ELSE IF landing_url.kind \in {"pdf", "abs"}
    THEN [base |-> landing_url.base, ver |-> landing_url.ver, style |-> landing_url.style]
    ELSE NoId

\* _split_arxiv_id_version: _ARXIV_VERSION_RE matches identifiers of the new style only;
\* any other identifier comes back whole, with no version
split_arxiv_id_version(arxiv_id) ==
    IF arxiv_id.style = "new"
    THEN [base |-> [arxiv_id EXCEPT !.ver = 0], ver |-> arxiv_id.ver]
    ELSE [base |-> arxiv_id, ver |-> 0]

\* f"https://arxiv.org/pdf/{base}{ver}.pdf"
CanonPdf(base, ver) ==
    Url("pdf", base.base, IF ver # 0 THEN ver ELSE base.ver, base.style, TRUE)

\* _candidate_pdf_urls: pinned (if versioned), latest, then the literal pdf_url if new
candidate_pdf_urls(landing_url, pdf_url) ==
    LET arxiv_id == guess_arxiv_id(landing_url, pdf_url) IN
    IF arxiv_id = NoId THEN (IF pdf_url # NoUrl THEN <<pdf_url>> ELSE <<>>)
    ELSE
        LET sp == split_arxiv_id_version(arxiv_id)
            pinned == IF sp.ver # 0 THEN <<CanonPdf(sp.base, sp.ver)>> ELSE <<>>
            latest == <<CanonPdf(sp.base, 0)>>
            c2 == pinned \o latest
            literal == IF pdf_url # NoUrl /\ \A j \in 1..Len(c2) : c2[j] # pdf_url
                       THEN <<pdf_url>> ELSE <<>>
        IN c2 \o literal

\* landing_url / pdf_url values of arXiv documents
UrlSamples ==
    {NoUrl, ExtUrl(1)}
    \cup {Url("pdf", b, v, st, c) : b \in 1..NDocs, v \in {0, 2}, st \in {"new", "old"}, c \in BOOLEAN}
    \cup {Url("abs", b, v, st, FALSE) : b \in 1..NDocs, v \in {0, 2}, st \in {"new", "old"}}

CandInit ==
    /\ cand_in = [landing_url |-> NoUrl, pdf_url |-> NoUrl]
    /\ cand_out = <<>>

\* one call of _candidate_pdf_urls
BuildCandidates(landing_url, pdf_url) ==
    /\ cand_in' = [landing_url |-> landing_url, pdf_url |-> pdf_url]
    /\ cand_out' = candidate_pdf_urls(landing_url, pdf_url)

\* The documents of the store that fetch_arxiv_pdfs can select (source = "arxiv",
\* pdf_url set).  Each names its own arXiv identifier, hence its own file name.
\* Document 1 is versioned (two candidates); the others are unversioned (one candidate).
DocUrls(d) ==
    IF d = 1 THEN [landing_url |-> ArxivAbs(d, 2), pdf_url |-> ArxivPdf(d, 2)]
    ELSE [landing_url |-> ArxivAbs(d, 0), pdf_url |-> ArxivPdf(d, 0)]

cand_urls(d) == candidate_pdf_urls(DocUrls(d).landing_url, DocUrls(d).pdf_url)

\* str(fpath): out_dir / _safe_filename("arxiv_<arxiv_id>.pdf")
NoPath == <<>>
fpath(d) == <<"out_dir", guess_arxiv_id(DocUrls(d).landing_url, DocUrls(d).pdf_url)>>

\* Files.  A file is absent or holds the chunks written to it so far.
NoFile == [exists |-> FALSE, data |-> <<>>]
EmptyFile == [exists |-> TRUE, data |-> <<>>]

\* HTTP.  A response carries status, content type and, for a GET, a body of n chunks.
PdfType == "application/pdf"
HtmlType == "text/html"
GetStatuses == {200, 404, 429, 503}
GetResponses ==
    [kind : {"resp"}, status : GetStatuses, ct : {PdfType, HtmlType}, n : {MaxChunks}]
GetOutcomes ==
    GetResponses \cup {[kind |-> k, status |-> 0, ct |-> "", n |-> 0] : k \in {"timeout", "exception"}}
NoResp == [kind |-> "none", status |-> 0, ct |-> "", n |-> 0]

\* the i-th chunk of a response body names the response it belongs to
Chunk(resp, i) == [status |-> resp.status, ct |-> resp.ct, i |-> i, of |-> resp.n]
Body(resp) == [i \in 1..resp.n |-> Chunk(resp, i)]

\* hashlib.sha256 over the chunks fed to it (an injective stand-in for the digest)
NoChecksum == <<>>
Sha256(chunks) == <<"sha256">> \o chunks

\* HEAD responses: status and whether Content-Length is absent, under or over the cap
NoHead == [status |-> 0, cl |-> "none"]
HeadOutcomes ==
    {[status |-> 200, cl |-> "small"], [status |-> 200, cl |-> "big"],
     [status |-> 404, cl |-> "none"], [status |-> 0, cl |-> "exception"]}

\* int(cl) > int(max_mb * 1024 * 1024)
OverCap(head) == head.cl = "big"

max_retries == 3

\* variant: 429 is not retried
Retryable5xxOnly(http_status) == http_status # 0 /\ 500 <= http_status /\ http_status < 600

\* the retry test of the GET loop, on the row's http_status
Retryable(http_status) == http_status = 429 \/ (http_status # 0 /\ 500 <= http_status /\ http_status < 600)

\* variant: any 200 counts as a success
FailedPdfStatusOkOn200(status) ==
    IF status = 200 THEN "ok"
    ELSE IF 500 <= status /\ status < 600 THEN "error"
    ELSE IF status = 404 THEN "not_found"
    ELSE "error"

\* the pdf_status recorded for a response that is not a 200 PDF
FailedPdfStatus(status) ==
    IF 500 <= status /\ status < 600 THEN "error"
    ELSE IF status = 403 THEN "forbidden"
    ELSE IF status = 404 THEN "not_found"
    ELSE "error"

\* the test that lets a response be written to disk
IsPdfResponse(resp) == resp.status = 200 /\ resp.ct = PdfType

NewRow ==
    [local_path |-> NoPath, status |-> "not_fetched", pdf_status |-> "null",
     http_status |-> 0, file_size |-> -1, checksum_sha256 |-> NoChecksum]

NoLoc ==
    [i |-> 1, k |-> 1, head |-> NoHead, chosen_url |-> NoUrl, url |-> NoUrl,
     attempt |-> 0, resp |-> NoResp, sha |-> <<>>, total_bytes |-> 0]

ZeroMetrics == [downloaded |-> 0, failed |-> 0, too_large |-> 0]

NoLog == [doc |-> 0, heads |-> 0, big |-> {}, gets |-> <<>>, skipped |-> FALSE]

\* how a GET attempt ended, as the log keeps it
GetClass(out) ==
    IF out.kind # "resp" THEN out.kind
    ELSE IF out.status = 429 \/ (500 <= out.status /\ out.status < 600) THEN "retryable"
    ELSE IF out.status = 200 /\ out.ct = PdfType THEN "pdf"
    ELSE "refused"

\* the outcomes the network can still produce
HeadAnswers == IF reqs < MaxHttp THEN HeadOutcomes ELSE {[status |-> 0, cl |-> "exception"]}
GetAnswers == IF reqs < MaxHttp THEN GetOutcomes ELSE {[kind |-> "exception", status |-> 0, ct |-> "", n |-> 0]}
Answered == IF reqs < MaxHttp THEN reqs + 1 ELSE reqs

\* The ids argument of fetch_arxiv_pdfs: None, a set of ints, or a value that
\* Document.id.in_ cannot take
NoIds == [given |-> FALSE, ok |-> TRUE, set |-> {}]
IdSet(S) == [given |-> TRUE, ok |-> TRUE, set |-> S]
BadIds == [given |-> TRUE, ok |-> FALSE, set |-> {}]

\* The --ids-file option: absent, or a file that holds lines (or cannot be read)
NoIdsFile == [given |-> FALSE, readable |-> TRUE, lines |-> <<>>]
IdsFile(readable, lines) == [given |-> TRUE, readable |-> readable, lines |-> lines]

\* x.strip() is empty
BlankLine(x) == x \in {"", " "}

\* int(x.strip()): 0 stands for ValueError
IntOf(x) == CASE x = "1" -> 1 [] x = " 2 " -> 2 [] OTHER -> 0

\* the ids the lines of a file name, if every line that is not blank is an int
LinesOk(lines) == \A j \in 1..Len(lines) : BlankLine(lines[j]) \/ IntOf(lines[j]) # 0
LineIds(lines) == {IntOf(lines[j]) : j \in {k \in 1..Len(lines) : ~BlankLine(lines[k])}}

\* _cmd of arxiv-fetch-pdf: ids stays None without the option, and is set back to None
\* when the file cannot be read or a line is not an int
ParseIds(ids_file) ==
    IF ~ids_file.given THEN NoIds
    ELSE IF ~ids_file.readable \/ ~LinesOk(ids_file.lines) THEN NoIds
    ELSE IdSet(LineIds(ids_file.lines))

\* fetch_arxiv_pdfs returns the zero-attempt metrics: ids is an empty set, or the
\* filter on ids raised
ZeroAttempt(ids) == ids.given /\ (~ids.ok \/ ids.set = {})

FetchInit ==
    /\ db = [docs |-> [d \in Ids |-> NewRow], visited |-> {}]
    /\ sess = db
    /\ final = [d \in Ids |-> NoFile]
    /\ part = [d \in Ids |-> NoFile]
    /\ cfg = [dry_run |-> FALSE, ids |-> NoIds, ids_file |-> NoIdsFile]
    /\ pc = "idle"
    /\ rows = <<>>
    /\ loc = NoLoc
    /\ m = ZeroMetrics
    /\ log = NoLog
    /\ reqs = 0

\* ids of a set in ascending order
RECURSIVE SortedSeq(_)
SortedSeq(S) ==
    IF S = {} THEN <<>>
    ELSE LET x == CHOOSE y \in S : \A z \in S : y <= z IN <<x>> \o SortedSeq(S \ {x})

FirstN(s, n) == SubSeq(s, 1, IF n < Len(s) THEN n ELSE Len(s))

\* the query of fetch_arxiv_pdfs: rows without local_path, or (with since_days) also the
\* rows whose fetched_at is older than the cutoff; at most `limit` of them
SelectRows(stale, limit, ids) ==
    FirstN(SortedSeq({d \in Ids : /\ ids.given => d \in ids.set
                                  /\ db.docs[d].local_path = NoPath \/ d \in stale}), limit)

\* a call of fetch_arxiv_pdfs starts: the zero-attempt return, or a fresh session with
\* the row-set materialised once
StartCall(dry_run, stale, limit, ids, ids_file) ==
    /\ pc \in {"idle", "done", "crashed"}
    /\ cfg' = [dry_run |-> dry_run, ids |-> ids, ids_file |-> ids_file]
    /\ sess' = db
    /\ loc' = NoLoc
    /\ m' = ZeroMetrics
    /\ log' = NoLog
    /\ IF ZeroAttempt(ids)
       THEN /\ rows' = <<>>
            /\ pc' = "done"
       ELSE /\ rows' = SelectRows(stale, limit, ids)
            /\ pc' = "loop"
    /\ UNCHANGED <<db, final, part, reqs>>

\* a call without ids
StartRun(dry_run, stale, limit) == StartCall(dry_run, stale, limit, NoIds, NoIdsFile)

\* a call with ids, made by a caller other than the command
StartRunIds(dry_run, limit, ids) == StartCall(dry_run, {}, limit, ids, NoIdsFile)

\* the command arxiv-fetch-pdf with --ids-file
FetchCmd(dry_run, limit, ids_file) == StartCall(dry_run, {}, limit, ParseIds(ids_file), ids_file)

CurDoc == rows[loc.i]

\* variant: trusts the row instead of the disk
AlreadyFetchedByRow(d) == sess.docs[d].local_path # NoPath

\* fpath.exists()
AlreadyFetched(d) == final[d].exists

\* the loop is over: the metrics record is returned
Return ==
    /\ pc = "loop"
    /\ loc.i > Len(rows)
    /\ pc' = "done"
    /\ UNCHANGED <<db, sess, final, part, cfg, rows, loc, m, log, reqs>>

\* fpath.exists(): the row is marked fetched and the document is skipped
SkipExisting ==
    /\ pc = "loop"
    /\ loc.i <= Len(rows)
    /\ AlreadyFetched(CurDoc)
    /\ sess' = [sess EXCEPT !.docs[CurDoc].local_path = fpath(CurDoc),
                            !.docs[CurDoc].status = "fetched"]
    /\ m' = [m EXCEPT !.downloaded = @ + 1]
    /\ log' = [NoLog EXCEPT !.doc = CurDoc, !.skipped = TRUE]
    /\ loc' = [NoLoc EXCEPT !.i = loc.i + 1]
    /\ UNCHANGED <<db, final, part, cfg, pc, rows, reqs>>

\* no file yet: the HEAD preflight over the candidates begins
BeginDoc ==
    /\ pc = "loop"
    /\ loc.i <= Len(rows)
    /\ ~AlreadyFetched(CurDoc)
    /\ loc' = [NoLoc EXCEPT !.i = loc.i]
    /\ log' = [NoLog EXCEPT !.doc = CurDoc]
    /\ pc' = "head"
    /\ UNCHANGED <<db, sess, final, part, cfg, rows, m, reqs>>

\* one iteration of the HEAD loop over cand_urls
HeadStep(out) ==
    /\ pc = "head"
    /\ LET cands == cand_urls(CurDoc)
           url_try == cands[loc.k]
           last == loc.k = Len(cands)
           skip == out.cl = "exception" \/ OverCap(out) \/ out.status \in {403, 404}
       IN
        /\ loc' = [loc EXCEPT !.head = IF out.cl = "exception" THEN @ ELSE out,
                              !.chosen_url = IF skip THEN @ ELSE url_try,
                              !.k = IF skip THEN @ + 1 ELSE @]
        /\ sess' = IF out.cl = "exception" THEN sess
                   ELSE [sess EXCEPT !.visited = @ \cup {url_try}]
        /\ log' = [log EXCEPT !.heads = @ + 1,
                              !.big = IF out.cl # "exception" /\ OverCap(out) THEN @ \cup {url_try} ELSE @]
        /\ pc' = IF ~skip \/ last THEN "post_head" ELSE "head"
    /\ reqs' = Answered
    /\ UNCHANGED <<db, final, part, cfg, rows, m>>

NextDoc == [NoLoc EXCEPT !.i = loc.i + 1]

\* variant: the dry run commits and continues without marking the row
DryRunNoMark ==
    /\ pc = "post_head"
    /\ cfg.dry_run
    /\ db' = sess
    /\ loc' = NextDoc
    /\ pc' = "loop"
    /\ UNCHANGED <<sess, final, part, cfg, rows, m, log, reqs>>

\* dry run: mark, commit, continue with the next document
DryRun ==
    /\ pc = "post_head"
    /\ cfg.dry_run
    /\ LET s2 == [sess EXCEPT !.docs[CurDoc].pdf_status = "dry_run"] IN
        /\ sess' = s2
        /\ db' = s2
    /\ loc' = NextDoc
    /\ pc' = "loop"
    /\ UNCHANGED <<final, part, cfg, rows, m, log, reqs>>

\* the last HEAD response is over the cap: record too_large, commit, skip the download
TooLarge ==
    /\ pc = "post_head"
    /\ ~cfg.dry_run
    /\ loc.head # NoHead /\ OverCap(loc.head)
    /\ LET s2 == [sess EXCEPT !.docs[CurDoc].pdf_status = "too_large"] IN
        /\ sess' = s2
        /\ db' = s2
    /\ m' = [m EXCEPT !.too_large = @ + 1]
    /\ loc' = NextDoc
    /\ pc' = "loop"
    /\ UNCHANGED <<final, part, cfg, rows, log, reqs>>

\* otherwise the GET loop starts on the chosen candidate, or on the first one
BeginGet ==
    /\ pc = "post_head"
    /\ ~cfg.dry_run
    /\ ~(loc.head # NoHead /\ OverCap(loc.head))
    /\ loc' = [loc EXCEPT !.url = IF loc.chosen_url # NoUrl THEN loc.chosen_url
                                  ELSE cand_urls(CurDoc)[1],
                          !.attempt = 0]
    /\ pc' = "get"
    /\ UNCHANGED <<db, sess, final, part, cfg, rows, m, log, reqs>>

\* variant: the counter is reset on every pass through the loop
NextAttemptReset(attempt) == 1

\* attempt += 1 at the head of the GET loop
NextAttempt(attempt) == attempt + 1

\* the log keeps the last five GETs of the document
Window(gets) == IF Len(gets) > 5 THEN Tail(gets) ELSE gets

\* the row changes of a failed attempt
FailRow(s, d, pdf_status) ==
    [s EXCEPT !.docs[d].status = "fetch_failed", !.docs[d].pdf_status = pdf_status]

\* one http.get of the retry loop, up to the point where the body is read
GetStep(out) ==
    /\ pc = "get"
    /\ log' = [log EXCEPT !.gets = Window(Append(@, GetClass(out)))]
    /\ reqs' = Answered
    /\ IF out.kind = "resp" /\ IsPdfResponse(out)
       THEN \* open(tmp_path, "wb")
            /\ sess' = [sess EXCEPT !.docs[CurDoc].http_status = out.status]
            /\ part' = [part EXCEPT ![CurDoc] = EmptyFile]
            /\ loc' = [loc EXCEPT !.attempt = NextAttempt(@), !.resp = out, !.sha = <<>>, !.total_bytes = 0]
            /\ m' = m
            /\ pc' = "stream"
       ELSE /\ sess' = IF out.kind = "resp"
                       THEN [FailRow(sess, CurDoc, FailedPdfStatus(out.status))
                                EXCEPT !.docs[CurDoc].http_status = out.status,
                                       !.visited = @ \cup {loc.url}]
                       ELSE FailRow(sess, CurDoc, IF out.kind = "timeout" THEN "timeout" ELSE "error")
            /\ part' = part
            /\ loc' = [loc EXCEPT !.attempt = NextAttempt(@), !.resp = out]
            /\ m' = [m EXCEPT !.failed = @ + 1]
            /\ pc' = "finally"
    /\ UNCHANGED <<db, final, cfg, rows>>

\* one chunk of resp.iter_content is written to tmp_path and fed to the hash
StreamChunk ==
    /\ pc = "stream"
    /\ loc.total_bytes < loc.resp.n
    /\ LET chunk == Chunk(loc.resp, loc.total_bytes + 1) IN
        /\ part' = [part EXCEPT ![CurDoc].data = Append(@, chunk)]
        /\ loc' = [loc EXCEPT !.sha = Append(@, chunk), !.total_bytes = @ + 1]
    /\ UNCHANGED <<db, sess, final, cfg, pc, rows, m, log, reqs>>

\* the connection breaks while the body is read: the except branch of the attempt
StreamFail ==
    /\ pc = "stream"
    /\ loc.total_bytes < loc.resp.n
    /\ sess' = FailRow(sess, CurDoc, "error")
    /\ m' = [m EXCEPT !.failed = @ + 1]
    /\ log' = [log EXCEPT !.gets[Len(log.gets)] = "exception"]
    /\ pc' = "finally"
    /\ UNCHANGED <<db, final, part, cfg, rows, loc, reqs>>

\* variant: renames without waiting for the end of the body
StreamDoneEarly == TRUE

\* whether the body has been read to its end, so that os.replace may run
StreamDone == loc.total_bytes = loc.resp.n

\* os.replace(tmp_path, fpath), then the row is filled in
Replace ==
    /\ pc = "stream"
    /\ StreamDone
    /\ final' = [final EXCEPT ![CurDoc] = part[CurDoc]]
    /\ part' = [part EXCEPT ![CurDoc] = NoFile]
    /\ sess' = [sess EXCEPT !.docs[CurDoc].local_path = fpath(CurDoc),
                            !.docs[CurDoc].status = "fetched",
                            !.docs[CurDoc].pdf_status = "ok",
                            !.docs[CurDoc].file_size = loc.total_bytes,
                            !.docs[CurDoc].checksum_sha256 = Sha256(loc.sha),
                            !.visited = @ \cup {loc.url}]
    /\ m' = [m EXCEPT !.downloaded = @ + 1]
    /\ pc' = "finally"
    /\ UNCHANGED <<db, cfg, rows, loc, log, reqs>>

\* the test at the foot of the GET loop that sends it round again
RetryAgain(attempt, row) ==
    /\ row.status # "fetched"
    /\ attempt <= max_retries
    /\ Retryable(row.http_status)

\* finally: commit; then leave the loop or retry
Finally ==
    /\ pc = "finally"
    /\ db' = sess
    /\ IF RetryAgain(loc.attempt, sess.docs[CurDoc])
       THEN /\ m' = m
            /\ loc' = loc
            /\ pc' = "get"
       ELSE /\ m' = m
            /\ loc' = NextDoc
            /\ pc' = "loop"
    /\ UNCHANGED <<sess, final, part, cfg, rows, log, reqs>>

Running == pc \in {"loop", "head", "post_head", "get", "stream", "finally"}

\* the process is killed: the session's uncommitted changes are lost, files stay
Crash ==
    /\ Running
    /\ pc' = "crashed"
    /\ sess' = db
    /\ loc' = NoLoc
    /\ rows' = <<>>
    /\ m' = ZeroMetrics
    /\ log' = NoLog
    /\ cfg' = [dry_run |-> FALSE, ids |-> NoIds, ids_file |-> NoIdsFile]
    /\ UNCHANGED <<db, final, part, reqs>>

FetchStep ==
    \/ Return
    \/ SkipExisting
    \/ BeginDoc
    \/ \E out \in HeadAnswers : HeadStep(out)
    \/ DryRun
    \/ TooLarge
    \/ BeginGet
    \/ \E out \in GetAnswers : GetStep(out)
    \/ StreamChunk
    \/ StreamFail
    \/ Replace
    \/ Finally

FetchNext ==
    \/ /\ \E dry_run \in BOOLEAN, stale \in SUBSET Ids, limit \in 1..NDocs :
            StartRun(dry_run, stale, limit)
       /\ UNCHANGED <<dedupVars, crawlVars, handlerVars, candVars, scoreVars, linkVars, gateVars>>
    \/ FetchStep /\ UNCHANGED <<dedupVars, crawlVars, handlerVars, candVars, scoreVars, linkVars, gateVars>>
    \/ Crash /\ UNCHANGED <<dedupVars, crawlVars, handlerVars, candVars, scoreVars, linkVars, gateVars>>

(***************************************************************************)
(* Crawl spiders: ResearchSpider.parse and PDFSpider.parse                 *)
(***************************************************************************)
NPages == 3
max_depth == 1
max_pages == 2

Urls == 1..NPages

\* _is_pdf_url: the last page of the site is a PDF
is_pdf_url(u) == u = NPages

start_urls == {1}

\* links_found[:20] in ResearchSpider, links_found[:15] in PDFSpider
ResearchLinkLimit == 20
PdfLinkLimit == 15

LinkLimit(sp) == IF sp = "research" THEN ResearchLinkLimit ELSE PdfLinkLimit

\* the links of a page that are followed: the first K of links_found
Follow(links, K) ==
    IF Cardinality(links) <= K THEN links
    ELSE CHOOSE S \in SUBSET links : Cardinality(S) = K

\* variant: the budget test lets one more response through
OverBudgetLate(n) == n > max_pages

\* the budget test at the head of parse
OverBudget(n) == n >= max_pages

\* the depth test of parse: a response deeper than max_depth is dropped
TooDeep(depth) == depth > max_depth

\* the requests parse yields for the links of a response received at `depth`
Requests(links, depth, K) == {[url |-> l, depth |-> depth + 1] : l \in Follow(links, K)}

CrawlInit ==
    /\ spider = "none"
    /\ frontier = {}
    /\ seen = {}
    /\ pages_crawled = 0
    /\ ledger = {}
    /\ crawlDocs = <<>>
    /\ yielded = {}

\* scrapy starts a spider: start_requests schedules the seeds at depth 0
CrawlStart(sp) ==
    /\ frontier = {}
    /\ spider' = sp
    /\ frontier' = {[url |-> u, depth |-> 0] : u \in start_urls}
    /\ seen' = start_urls
    /\ pages_crawled' = 0
    /\ yielded' = {}
    /\ UNCHANGED <<ledger, crawlDocs>>

\* the scheduler takes the yielded requests whose URL it has not seen in this run
Schedule(req, new) ==
    /\ yielded' = yielded \cup new
    /\ frontier' = (frontier \ {req}) \cup {r \in new : r.url \notin seen}
    /\ seen' = seen \cup {r.url : r \in new}

HasDoc(url) == \E j \in 1..Len(crawlDocs) : crawlDocs[j] = url

\* variant: the link-following code runs for every response
ResearchYieldAlways(req, links, persisted) ==
    Requests(links, req.depth, LinkLimit("research"))

\* the requests ResearchSpider.parse yields: each return before the Document is stored
\* ends the generator, so the link-following code is reached only after the commits
ResearchYield(req, links, persisted) ==
    IF persisted THEN Requests(links, req.depth, LinkLimit("research")) ELSE {}

\* ResearchSpider.parse on the response to req; links and passes describe the page
\* (passes: the title is not on the skip list and the text matches a keyword pattern)
ResearchParse(req, links, passes) ==
    /\ spider = "research"
    /\ req \in frontier
    /\ IF OverBudget(pages_crawled)
       THEN /\ Schedule(req, {})
            /\ UNCHANGED <<pages_crawled, ledger, crawlDocs>>
       ELSE /\ pages_crawled' = pages_crawled + 1
            /\ IF TooDeep(req.depth) \/ req.url \in ledger \/ HasDoc(req.url) \/ ~passes
               THEN /\ Schedule(req, ResearchYield(req, links, FALSE))
                    /\ UNCHANGED <<ledger, crawlDocs>>
               ELSE /\ crawlDocs' = Append(crawlDocs, req.url)
                    /\ ledger' = ledger \cup {req.url}
                    /\ Schedule(req, ResearchYield(req, links, TRUE))
    /\ UNCHANGED spider

\* the documents PDFSpider.parse adds for pdf_links: the exists query sees committed rows only
RECURSIVE NewPdfDocs(_)
NewPdfDocs(pdf_links) ==
    IF pdf_links = <<>> THEN <<>>
    ELSE (IF HasDoc(Head(pdf_links)) THEN <<>> ELSE <<Head(pdf_links)>>) \o NewPdfDocs(Tail(pdf_links))

\* PDFSpider.parse on the response to req
PdfParse(req, links, pdf_links, passes) ==
    /\ spider = "pdf"
    /\ req \in frontier
    /\ IF OverBudget(pages_crawled)
       THEN /\ Schedule(req, {})
            /\ UNCHANGED <<pages_crawled, ledger, crawlDocs>>
       ELSE /\ pages_crawled' = pages_crawled + 1
            /\ IF TooDeep(req.depth)
               THEN /\ Schedule(req, {})
                    /\ UNCHANGED <<ledger, crawlDocs>>
               ELSE IF is_pdf_url(req.url)
               THEN \* _process_pdf
                    /\ crawlDocs' = IF HasDoc(req.url) THEN crawlDocs ELSE Append(crawlDocs, req.url)
                    /\ Schedule(req, {})
                    /\ UNCHANGED ledger
               ELSE IF req.url \in ledger
               THEN /\ Schedule(req, {})
                    /\ UNCHANGED <<ledger, crawlDocs>>
               ELSE /\ crawlDocs' = IF passes THEN crawlDocs \o NewPdfDocs(pdf_links) ELSE crawlDocs
                    /\ ledger' = ledger \cup {req.url}
                    /\ Schedule(req, Requests(links, req.depth, LinkLimit("pdf")))
    /\ UNCHANGED spider

\* SeedSpider.parse on the response to req: no depth test, every link is followed and
\* the requests carry no depth of their own
SeedParse(req, links, passes) ==
    /\ spider = "seed"
    /\ req \in frontier
    /\ IF OverBudget(pages_crawled)
       THEN /\ Schedule(req, {})
            /\ UNCHANGED <<pages_crawled, ledger, crawlDocs>>
       ELSE /\ pages_crawled' = pages_crawled + 1
            /\ IF req.url \in ledger \/ HasDoc(req.url) \/ ~passes
               THEN /\ Schedule(req, {})
                    /\ UNCHANGED <<ledger, crawlDocs>>
               ELSE /\ crawlDocs' = Append(crawlDocs, req.url)
                    /\ ledger' = ledger \cup {req.url}
                    /\ Schedule(req, {[url |-> l, depth |-> 0] : l \in links})
    /\ UNCHANGED spider

PdfLinkLists == {<<>>} \cup {<<u>> : u \in {v \in Urls : is_pdf_url(v)}}
                       \cup {<<u, u>> : u \in {v \in Urls : is_pdf_url(v)}}

CrawlNext ==
    \/ /\ \E sp \in {"research", "pdf", "seed"} : CrawlStart(sp)
       /\ UNCHANGED <<dedupVars, fetchVars, handlerVars, candVars, scoreVars, linkVars, gateVars>>
    \/ /\ \E req \in frontier, links \in SUBSET Urls, passes \in BOOLEAN : ResearchParse(req, links, passes)
       /\ UNCHANGED <<dedupVars, fetchVars, handlerVars, candVars, scoreVars, linkVars, gateVars>>
    \/ /\ \E req \in frontier, links \in SUBSET Urls, pdf_links \in PdfLinkLists, passes \in BOOLEAN :
            PdfParse(req, links, pdf_links, passes)
       /\ UNCHANGED <<dedupVars, fetchVars, handlerVars, candVars, scoreVars, linkVars, gateVars>>
    \/ /\ \E req \in frontier, links \in SUBSET Urls, passes \in BOOLEAN : SeedParse(req, links, passes)
       /\ UNCHANGED <<dedupVars, fetchVars, handlerVars, candVars, scoreVars, linkVars, gateVars>>

(***************************************************************************)
(* Concurrent page handlers.  Two crawl processes work on the same store   *)
(* (the crawl commands share one database file); each runs the store       *)
(* accesses of parse one at a time: ledger lookup, Document lookup,        *)
(* Document insert with its commit, ledger upsert with its commit.         *)
(***************************************************************************)
NHandlers == 2
MaxStarts == 4
MaxFetcherTime == 3

\* no visited_urls row for a URL
NoEntry == [first_seen |-> 0, last_seen |-> 0, status |-> "none"]

Handlers == 1..NHandlers

HandlerInit ==
    /\ hs = [h \in Handlers |-> [pc |-> "idle", url |-> 0]]
    /\ hdocs = <<>>
    /\ hledger = {}
    /\ hstarts = 0
    /\ htimes = [u \in Urls |-> NoEntry]
    /\ hnow = 1

\* a response for url reaches parse in handler h
HandlerStart(h, url) ==
    /\ hs[h].pc = "idle"
    /\ hstarts < MaxStarts
    /\ hs' = [hs EXCEPT ![h] = [pc |-> "ledger_lookup", url |-> url]]
    /\ hstarts' = hstarts + 1
    /\ UNCHANGED <<hdocs, hledger, htimes, hnow>>

\* vu = session.get(VisitedUrl, url); if vu: return
LedgerLookup(h) ==
    /\ hs[h].pc = "ledger_lookup"
    /\ hs' = [hs EXCEPT ![h].pc = IF hs[h].url \in hledger THEN "idle" ELSE "doc_lookup"]
    /\ UNCHANGED <<hdocs, hledger, hstarts, htimes, hnow>>

\* exists = session.query(Document).filter(Document.source_url == url).first(); if exists: return
DocLookup(h) ==
    /\ hs[h].pc = "doc_lookup"
    /\ hs' = [hs EXCEPT ![h].pc = IF \E j \in 1..Len(hdocs) : hdocs[j] = hs[h].url
                                  THEN "idle" ELSE "insert"]
    /\ UNCHANGED <<hdocs, hledger, hstarts, htimes, hnow>>

\* the relevance filter, then session.add(doc); session.commit()
DocInsert(h, passes) ==
    /\ hs[h].pc = "insert"
    /\ IF passes
       THEN /\ hdocs' = Append(hdocs, hs[h].url)
            /\ hs' = [hs EXCEPT ![h].pc = "ledger_upsert"]
       ELSE /\ hdocs' = hdocs
            /\ hs' = [hs EXCEPT ![h].pc = "idle"]
    /\ UNCHANGED <<hledger, hstarts, htimes, hnow>>

\* session.merge(VisitedUrl(url=url, first_seen=now, last_seen=now, status="ok")):
\* the row with this primary key gets every attribute of the given object,
\* whether it was there or not
MergeVisited(old, now) == [first_seen |-> now, last_seen |-> now, status |-> "ok"]

\* now = datetime.utcnow(); vu = VisitedUrl(...); session.merge(vu); session.commit()
LedgerUpsert(h) ==
    /\ hs[h].pc = "ledger_upsert"
    /\ hledger' = hledger \cup {hs[h].url}
    /\ htimes' = [htimes EXCEPT ![hs[h].url] = MergeVisited(@, hnow)]
    /\ hnow' = hnow + 1
    /\ hs' = [hs EXCEPT ![h].pc = "idle"]
    /\ UNCHANGED <<hdocs, hstarts>>

\* the crawl process is killed while handler h is inside parse: what it has
\* committed stays, the rest of parse never runs
HandlerKill(h) ==
    /\ hs[h].pc # "idle"
    /\ hs' = [hs EXCEPT ![h].pc = "idle"]
    /\ UNCHANGED <<hdocs, hledger, hstarts, htimes, hnow>>

\* the fetcher or the open-link downloader, running on the same store, records a
\* response for url: existing = session.get(VisitedUrl, url); if existing: last_seen
\* and status are set, else the row is created with first_seen = last_seen = now
RecordVisited(url, status) ==
    /\ hnow < MaxFetcherTime
    /\ hledger' = hledger \cup {url}
    /\ htimes' = [htimes EXCEPT ![url] =
                     IF url \in hledger
                     THEN [@ EXCEPT !.last_seen = hnow, !.status = status]
                     ELSE [first_seen |-> hnow, last_seen |-> hnow, status |-> status]]
    /\ hnow' = hnow + 1
    /\ UNCHANGED <<hs, hdocs, hstarts>>

HandlerNext ==
    \/ /\ \E h \in Handlers, url \in Urls : HandlerStart(h, url)
       /\ UNCHANGED <<dedupVars, fetchVars, crawlVars, candVars, scoreVars, linkVars, gateVars>>
    \/ /\ \E h \in Handlers : LedgerLookup(h)
       /\ UNCHANGED <<dedupVars, fetchVars, crawlVars, candVars, scoreVars, linkVars, gateVars>>
    \/ /\ \E h \in Handlers : DocLookup(h)
       /\ UNCHANGED <<dedupVars, fetchVars, crawlVars, candVars, scoreVars, linkVars, gateVars>>
    \/ /\ \E h \in Handlers, passes \in BOOLEAN : DocInsert(h, passes)
       /\ UNCHANGED <<dedupVars, fetchVars, crawlVars, candVars, scoreVars, linkVars, gateVars>>
    \/ /\ \E h \in Handlers : LedgerUpsert(h)
       /\ UNCHANGED <<dedupVars, fetchVars, crawlVars, candVars, scoreVars, linkVars, gateVars>>
    \/ /\ \E h \in Handlers : HandlerKill(h)
       /\ UNCHANGED <<dedupVars, fetchVars, crawlVars, candVars, scoreVars, linkVars, gateVars>>
    \/ /\ \E url \in Urls, status \in {"200", "404"} : RecordVisited(url, status)
       /\ UNCHANGED <<dedupVars, fetchVars, crawlVars, candVars, scoreVars, linkVars, gateVars>>

(***************************************************************************)
(* Relevance scorer (src/uwss/score/__init__.py).  Scores are kept in      *)
(* thousandths: the float 1.0 is ScoreUnit, and a quotient is rounded      *)
(* down to the next thousandth.                                            *)
(***************************************************************************)
MaxScoreDocs == 1
MaxScoreRuns == 2

ScoreUnit == 1000

AbstractBonusLen == 200
FulltextMinLen == 100
FulltextLimit == 5000

Range(seq) == {seq[i] : i \in 1..Len(seq)}

Min(a, b) == IF a <= b THEN a ELSE b

Max(a, b) == IF a >= b THEN a ELSE b

\* the characters [a-z0-9] of the regular expression of _tokenize
AlnumChars ==
    {"a", "b", "c", "d", "e", "f", "g", "h", "i", "j", "k", "l", "m",
     "n", "o", "p", "q", "r", "s", "t", "u", "v", "w", "x", "y", "z",
     "0", "1", "2", "3", "4", "5", "6", "7", "8", "9"}

\* re.findall(r"[a-z0-9]+", s): the maximal runs of [a-z0-9], left to right
FindallAlnum(s) ==
    LET starts == {i \in 1..Len(s) : s[i] \in AlnumChars /\ (i = 1 \/ s[i - 1] \notin AlnumChars)}
        ends == {j \in 1..Len(s) : s[j] \in AlnumChars /\ (j = Len(s) \/ s[j + 1] \notin AlnumChars)}
        nth(S, k) == CHOOSE i \in S : Cardinality({j \in S : j < i}) = k - 1
    IN [k \in 1..Cardinality(starts) |-> SubSeq(s, nth(starts, k), nth(ends, k))]

\* _tokenize
tokenize(text) ==
    IF ~Truthy(text) THEN <<>> ELSE FindallAlnum(Lower(text))

\* _bigrams
bigrams(tokens) ==
    IF Len(tokens) > 1
    THEN [i \in 1..(Len(tokens) - 1) |-> tokens[i] \o <<" ">> \o tokens[i + 1]]
    ELSE <<>>

\* _build_keyword_lexicon
build_keyword_lexicon(keywords) ==
    [uni |-> UNION {Range(tokenize(kw)) : kw \in Range(keywords)},
     bi |-> UNION {Range(bigrams(tokenize(kw))) : kw \in Range(keywords)},
     phrases |-> Range(keywords)]

\* the largest r with lo <= r < hi and r * r <= x
RECURSIVE Bisect(_, _, _)
Bisect(x, lo, hi) ==
    IF hi - lo <= 1 THEN lo
    ELSE LET mid == (lo + hi) \div 2
         IN IF mid * mid <= x THEN Bisect(x, mid, hi) ELSE Bisect(x, lo, mid)

\* len(tokens) ** 0.5, in thousandths
SqrtUnits(n) == Bisect(n * ScoreUnit * ScoreUnit, 0, 46340)

\* _score_text
score_text(tokens, bi_tokens, kw_uni, kw_bi) ==
    IF tokens = <<>> THEN 0
    ELSE LET uni_hits == Cardinality(Range(tokens) \cap kw_uni)
             bi_hits == Cardinality(Range(bi_tokens) \cap kw_bi)
             raw == uni_hits + 2 * bi_hits
             norm == Max(ScoreUnit, SqrtUnits(Len(tokens)))
         IN (raw * ScoreUnit * ScoreUnit) \div norm

\* " ".join(...)
RECURSIVE JoinBlank(_)
JoinBlank(strs) ==
    IF strs = <<>> THEN <<>>
    ELSE IF Len(strs) = 1 THEN strs[1]
    ELSE strs[1] \o <<" ">> \o JoinBlank(Tail(strs))

RECURSIVE Flatten(_)
Flatten(seqs) == IF seqs = <<>> THEN <<>> ELSE Head(seqs) \o Flatten(Tail(seqs))

\* lines 101-106: doi stripped and lower-cased, title and abstract stripped
NormalizeFields(doc) ==
    [doc EXCEPT !.doi = IF Truthy(@) THEN Lower(Strip(@)) ELSE @,
                !.title = IF Truthy(@) THEN Strip(@) ELSE @,
                !.abstract = IF Truthy(@) THEN Strip(@) ELSE @]

\* lines 122-131: the text of the file at content_path, None when the path is
\* null, the file is missing or cannot be read, or use_fulltext is off
ReadFulltext(doc, use_fulltext) ==
    IF use_fulltext /\ doc.content # None THEN doc.content ELSE None

\* lines 109-142: the (part_type, text) pairs collected for one document
TextParts(doc, fulltext) ==
    (IF Truthy(doc.title) THEN <<[type |-> "title", text |-> doc.title]>> ELSE <<>>)
    \o (IF Truthy(doc.abstract) THEN <<[type |-> "abstract", text |-> doc.abstract]>> ELSE <<>>)
    \o (IF Truthy(fulltext) /\ Len(fulltext) > FulltextMinLen
        THEN <<[type |-> "fulltext", text |-> SubSeq(fulltext, 1, Min(Len(fulltext), FulltextLimit))]>>
        ELSE <<>>)
    \o (IF doc.keywords # <<>> /\ JoinBlank(doc.keywords) # <<>>
        THEN <<[type |-> "keywords", text |-> JoinBlank(doc.keywords)]>>
        ELSE <<>>)

\* the tokens of the last part of the given type (lines 160-170), [] when there is none
PartTokens(text_parts, type) ==
    Flatten([i \in 1..Len(text_parts) |->
               IF text_parts[i].type = type THEN tokenize(text_parts[i].text) ELSE <<>>])

\* a score that is not limited
Uncapped(x) == x

\* min(1.0, x)
Cap(x) == Min(ScoreUnit, x)

\* lines 186-198
QualityBonus(doc, fulltext) ==
    (IF Truthy(doc.abstract) /\ Len(doc.abstract) > AbstractBonusLen THEN 100 ELSE 0)
    + (IF Truthy(doc.authors) THEN 50 ELSE 0)
    + (IF doc.year # 0 THEN 50 ELSE 0)
    + (IF Truthy(doc.doi) THEN 100 ELSE 0)
    + (IF Truthy(fulltext) THEN 100 ELSE 0)
    + (IF Truthy(doc.affiliations) THEN 50 ELSE 0)

\* lines 203-210: score * max(0.1, 1.0 - neg_hits * 0.3) when a negative keyword matches
Penalize(score, negative_keywords, all_tokens, all_bigrams) ==
    IF negative_keywords = <<>> THEN score
    ELSE LET neg_lex == build_keyword_lexicon(negative_keywords)
             neg_hits == Cardinality(Range(all_tokens) \cap neg_lex.uni)
                         + Cardinality(Range(all_bigrams) \cap neg_lex.bi)
         IN IF neg_hits > 0
            THEN (score * Max(100, ScoreUnit - neg_hits * 300)) \div ScoreUnit
            ELSE score

\* lines 215-223.  pbis is built from list(set(tokens)), whose order is not
\* fixed; a bigram of the text can only match when its first token is in the
\* text, so every order gives the same answer, and all ordered pairs of distinct
\* tokens are taken.
PhraseFound(phrase, text_uni, text_bi) ==
    LET ptoks == Range(tokenize(phrase))
        pbis == UNION {{t1 \o <<" ">> \o t2 : t2 \in ptoks \ {t1}} : t1 \in ptoks}
    IN (ptoks \cap text_uni # {}) \/ (pbis \cap text_bi # {})

\* the relevance_score and keywords_found the loop body computes for a
\* document whose fields are those of doc (lines 108-223)
Evaluate(doc, keywords, negative_keywords, use_fulltext) ==
    LET lex == build_keyword_lexicon(keywords)
        fulltext == ReadFulltext(doc, use_fulltext)
        text_parts == TextParts(doc, fulltext)
        part_tokens == [i \in 1..Len(text_parts) |-> tokenize(text_parts[i].text)]
        all_tokens == Flatten(part_tokens)
        all_bigrams == Flatten([i \in 1..Len(text_parts) |-> bigrams(part_tokens[i])])
        title_tokens == PartTokens(text_parts, "title")
        abstract_tokens == PartTokens(text_parts, "abstract")
        s_title == score_text(title_tokens, bigrams(title_tokens), lex.uni, lex.bi)
        s_abs == score_text(abstract_tokens, bigrams(abstract_tokens), lex.uni, lex.bi)
        s_fulltext == score_text(all_tokens, all_bigrams, lex.uni, lex.bi)
        weighted == IF Truthy(fulltext)
                    THEN Cap((4 * s_title + 3 * s_abs + 3 * s_fulltext) \div 10)
                    ELSE Cap((6 * s_title + 4 * s_abs) \div 10)
        score == Cap(weighted + QualityBonus(doc, fulltext))
    IN IF text_parts = <<>>
       THEN [relevance_score |-> 0, keywords_found |-> {}]
       ELSE [relevance_score |-> Penalize(score, negative_keywords, all_tokens, all_bigrams),
             keywords_found |-> {p \in lex.phrases :
                                   PhraseFound(p, Range(all_tokens), Range(all_bigrams))}]

\* the loop body with the scores taken from the fields as they were read
score_document_as_read(doc, keywords, negative_keywords, use_fulltext) ==
    LET e == Evaluate(doc, keywords, negative_keywords, use_fulltext)
    IN [NormalizeFields(doc) EXCEPT !.relevance_score = e.relevance_score,
                                    !.keywords_found = e.keywords_found]

\* the loop body of score_documents for one document (lines 99-223): the
\* fields are normalised first, and everything else reads the normalised fields
score_document(doc, keywords, negative_keywords, use_fulltext) ==
    LET e == Evaluate(NormalizeFields(doc), keywords, negative_keywords, use_fulltext)
    IN [NormalizeFields(doc) EXCEPT !.relevance_score = e.relevance_score,
                                    !.keywords_found = e.keywords_found]

\* ".": a character that is neither blank nor matched by [a-z0-9]
Filler(n) == [i \in 1..n |-> "."]

\* an abstract of exactly 200 characters whose only word is "x"
Abstract200 == <<"x">> \o Filler(199)

\* a content file of 101 characters whose only word is "a"
Content101 == <<"a">> \o Filler(100)

TitleSamples == {None, <<" ", "A", " ", "b">>, <<"x">>, <<"n", " ", "x", " ", "n">>}
AbstractSamples == {None, <<" ">>, <<"a">>, Abstract200, Abstract200 \o <<" ">>}
DoiSamples == {None, <<" ", "A">>}
ContentSamples == {None, <<"a">>, Content101}
\* doc.keywords as the list its JSON text holds; [] also for a null column
KeywordsSamples == {<<>>, << <<"a">> >>}

\* the documents other components insert: not scored yet
ScoreDocSamples ==
    {[title |-> t, abstract |-> ab, doi |-> d,
      authors |-> IF meta THEN <<"a">> ELSE None,
      year |-> IF meta THEN 2020 ELSE 0,
      affiliations |-> IF meta THEN <<"b">> ELSE None,
      keywords |-> k, content |-> c,
      relevance_score |-> None, keywords_found |-> None] :
        t \in TitleSamples, ab \in AbstractSamples, d \in DoiSamples,
        meta \in BOOLEAN, k \in KeywordsSamples, c \in ContentSamples}

KeywordLists == {<< <<"a">> >>, << <<"a", " ", "b">> >>}
NegativeLists == {<<>>, << <<"n">> >>, << <<"n", " ", "x">>, <<"x", " ", "n">> >>}

ScoreInit ==
    /\ sdocs = <<>>
    /\ scalls = <<>>
    /\ sruns = 0

\* another component inserts a Document (session.add; session.commit); the
\* pipeline ingests before it scores
ScoreAddDocument(doc) ==
    /\ sruns = 0
    /\ Len(sdocs) < MaxScoreDocs
    /\ sdocs' = Append(sdocs, doc)
    /\ UNCHANGED <<scalls, sruns>>

\* one call of score_documents: every Document is normalised and scored, then
\* the session is committed
ScoreRun(keywords, negative_keywords, use_fulltext) ==
    /\ sruns < MaxScoreRuns
    /\ sdocs' = [i \in 1..Len(sdocs) |->
                   score_document(sdocs[i], keywords, negative_keywords, use_fulltext)]
    /\ scalls' = Append(scalls, [keywords |-> keywords, negative_keywords |-> negative_keywords,
                                 use_fulltext |-> use_fulltext])
    /\ sruns' = sruns + 1

ScoreNext ==
    \/ /\ \E doc \in ScoreDocSamples : ScoreAddDocument(doc)
       /\ UNCHANGED <<dedupVars, fetchVars, crawlVars, handlerVars, candVars, linkVars, gateVars>>
    \/ /\ \E keywords \in KeywordLists, negative_keywords \in NegativeLists, use_fulltext \in BOOLEAN :
            ScoreRun(keywords, negative_keywords, use_fulltext)
       /\ UNCHANGED <<dedupVars, fetchVars, crawlVars, handlerVars, candVars, linkVars, gateVars>>

(***************************************************************************)
(* Link selection of ResearchSpider.parse and PDFSpider.parse: the anchors *)
(* of a page are filtered, scored, sorted and cut to the first K.  A link  *)
(* is [url, netloc, pdf_related, eligible]: netloc is urlparse(url).netloc  *)
(* (host, and ":port" when the URL names one), pdf_related tells whether   *)
(* the path holds one of the words pdf, paper, publication, research, and  *)
(* eligible whether scheme, domain and path blocklist tests let it pass.   *)
(* Scores are kept in tenths.                                              *)
(***************************************************************************)
MaxLinkPages == 1

EndsWith(s, suffix) ==
    Len(s) >= Len(suffix) /\ SubSeq(s, Len(s) - Len(suffix) + 1, Len(s)) = suffix

LowerLetters ==
    {"a", "b", "c", "d", "e", "f", "g", "h", "i", "j", "k", "l", "m",
     "n", "o", "p", "q", "r", "s", "t", "u", "v", "w", "x", "y", "z"}

\* re.search(r'\.ac\.[a-z]{2,}$', s)
EndsWithAcTld(s) ==
    \E i \in 1..Len(s) :
        /\ i + 3 <= Len(s)
        /\ SubSeq(s, i, i + 3) = <<".", "a", "c", ".">>
        /\ Len(s) - (i + 3) >= 2
        /\ \A j \in (i + 4)..Len(s) : s[j] \in LowerLetters

\* _is_academic_domain: one of ACADEMIC_DOMAINS is found in domain.lower()
is_academic_domain(domain) ==
    LET domain_lower == Lower(domain)
    IN \/ EndsWith(domain_lower, <<".", "e", "d", "u">>)
       \/ EndsWithAcTld(domain_lower)
       \/ EndsWith(domain_lower, <<".", "g", "o", "v">>)
       \/ EndsWith(domain_lower, <<".", "o", "r", "g">>)

\* ResearchSpider._score_domain
score_domain(domain) ==
    IF is_academic_domain(domain) THEN 10
    ELSE IF EndsWith(Lower(domain), <<".", "o", "r", "g">>) THEN 7
    ELSE 3

\* PDFSpider.parse: priority = 1.0 if is_academic else 0.5, plus 0.3 for a PDF-related path
pdf_priority(link) ==
    (IF is_academic_domain(link.netloc) THEN 10 ELSE 5) + (IF link.pdf_related THEN 3 ELSE 0)

LinkScore(sp, link) == IF sp = "research" THEN score_domain(link.netloc) ELSE pdf_priority(link)

\* the loop that fills links_found: the eligible anchors in page order
SelectEligible(anchors) == SelectSeq(anchors, LAMBDA a : a.eligible)

\* links_found.sort(key=lambda x: x[1], reverse=True): descending score, equal
\* scores keep their order; that is, for each score from the highest down, the
\* links of that score in the order they had
RECURSIVE SortByScore(_, _)
SortByScore(sp, links_found) ==
    IF links_found = <<>> THEN <<>>
    ELSE LET scores == {LinkScore(sp, links_found[i]) : i \in 1..Len(links_found)}
             top == CHOOSE v \in scores : \A w \in scores : w <= v
         IN SelectSeq(links_found, LAMBDA l : LinkScore(sp, l) = top)
            \o SortByScore(sp, SelectSeq(links_found, LAMBDA l : LinkScore(sp, l) < top))

\* the requests yielded for a page: links_found[:K] after the sort
FollowLinks(sp, anchors) ==
    LET sorted == SortByScore(sp, SelectEligible(anchors))
    IN SubSeq(sorted, 1, Min(Len(sorted), LinkLimit(sp)))

\* the kinds of anchor a page is built from
AnchorKinds ==
    {[netloc |-> <<"A", ".", "e", "d", "u">>, pdf_related |-> FALSE, eligible |-> TRUE],
     [netloc |-> <<"b", ".", "c", "o", "m">>, pdf_related |-> FALSE, eligible |-> TRUE],
     [netloc |-> <<"b", ".", "c", "o", "m">>, pdf_related |-> TRUE, eligible |-> TRUE],
     [netloc |-> <<"a", ".", "e", "d", "u", ":", "8">>, pdf_related |-> FALSE, eligible |-> TRUE],
     [netloc |-> <<"x", ".", "a", "c", ".", "u", "k">>, pdf_related |-> TRUE, eligible |-> TRUE],
     [netloc |-> <<"b", ".", "o", "r", "g">>, pdf_related |-> FALSE, eligible |-> FALSE]}

RunLengths == {1, 16}

\* a page: three runs of anchors, each of one kind; the URL of an anchor is its position
PageOf(k1, n1, k2, n2, k3, n3) ==
    [i \in 1..(n1 + n2 + n3) |->
        LET kind == IF i <= n1 THEN k1 ELSE IF i <= n1 + n2 THEN k2 ELSE k3
        IN [url |-> i, netloc |-> kind.netloc, pdf_related |-> kind.pdf_related,
            eligible |-> kind.eligible]]

LinkInit ==
    /\ lk_in = [spider |-> "none", anchors |-> <<>>]
    /\ lk_out = <<>>
    /\ lk_calls = 0

\* parse reaches its link loop for a page (lines 202-240 / 189-232)
SelectLinks(sp, anchors) ==
    /\ lk_calls < MaxLinkPages
    /\ lk_in' = [spider |-> sp, anchors |-> anchors]
    /\ lk_out' = FollowLinks(sp, anchors)
    /\ lk_calls' = lk_calls + 1

LinkNext ==
    /\ \E sp \in {"research", "pdf"}, k1 \in AnchorKinds, k2 \in AnchorKinds, k3 \in AnchorKinds,
          n1 \in RunLengths, n2 \in RunLengths, n3 \in RunLengths :
            SelectLinks(sp, PageOf(k1, n1, k2, n2, k3, n3))
    /\ UNCHANGED <<dedupVars, fetchVars, crawlVars, handlerVars, candVars, scoreVars, gateVars>>

(***************************************************************************)
(* Relevance gate of ResearchSpider.parse and SeedSpider.parse: between    *)
(* the Document lookup and the Document insert a page is dropped when its  *)
(* title is on the skip list or no keyword pattern is found in its text.   *)
(* A page is [title, abstract, paragraphs]: the extracted title and        *)
(* abstract (None when there is none) and the texts of its p elements.     *)
(***************************************************************************)
\* needle in haystack
Contains(haystack, needle) ==
    \E i \in 1..(Len(haystack) - Len(needle) + 1) :
        SubSeq(haystack, i, i + Len(needle) - 1) = needle

\* p.search(text) for p = re.compile(re.escape(kw), re.IGNORECASE)
PatternSearch(kw, text) == Contains(Lower(text), Lower(kw))

\* x or ""
OrEmpty(x) == IF Truthy(x) THEN x ELSE <<>>

\* skip_titles of ResearchSpider.parse
ResearchSkipTitles ==
    {<<"h", "o", "m", "e">>,
     <<"a", "b", "o", "u", "t">>,
     <<"c", "o", "n", "t", "a", "c", "t">>,
     <<"e", "d", "u", "c", "a", "t", "i", "o", "n">>,
     <<"l", "o", "g", "i", "n">>,
     <<"s", "i", "g", "n", " ", "u", "p">>,
     <<"p", "r", "i", "v", "a", "c", "y">>,
     <<"t", "e", "r", "m", "s">>,
     <<"c", "o", "o", "k", "i", "e">>,
     <<"s", "i", "t", "e", "m", "a", "p">>,
     <<"4", "0", "4">>,
     <<"e", "r", "r", "o", "r">>}

\* skip_titles of SeedSpider.parse
SeedSkipTitles ==
    {<<"e", "d", "u", "c", "a", "t", "i", "o", "n">>,
     <<"a", "c", "i", " ", "u", "n", "i", "v", "e", "r", "s", "i", "t", "y">>,
     <<"c", "o", "o", "p", "e", "r", "a", "t", "i", "n", "g", " ", "o", "r", "g", "a", "n", "i", "z", "a", "t", "i", "o", "n", "s">>}

\* no skip list
NeverSkipped(sp, title) == FALSE

\* research: any(skip in title_lower for skip in skip_titles);
\* seed: (title or "").strip().lower() in skip_titles
TitleSkipped(sp, title) ==
    LET title_lower == Lower(Strip(OrEmpty(title)))
    IN IF sp = "research"
       THEN \E skip \in ResearchSkipTitles : Contains(title_lower, skip)
       ELSE title_lower \in SeedSkipTitles

\* full_text = (title or "") + "\n" + (abstract or "") + "\n" + (" ".join(p texts) or "")
FullText(page) ==
    OrEmpty(page.title) \o <<"\n">> \o OrEmpty(page.abstract) \o <<"\n">> \o JoinBlank(page.paragraphs)

\* lines 143-160 of ResearchSpider.parse, 62-76 of SeedSpider.parse
Gate(sp, keyword_patterns, page) ==
    IF keyword_patterns = <<>> THEN "persist"
    ELSE IF TitleSkipped(sp, page.title) THEN "blocked"
    ELSE IF \E k \in 1..Len(keyword_patterns) : PatternSearch(keyword_patterns[k], FullText(page))
    THEN "persist"
    ELSE "irrelevant"

GateTitles ==
    {None, <<"H", "o", "m", "e">>, <<" ", "E", "d", "u", "c", "a", "t", "i", "o", "n", " ">>,
     <<"k", " ", "h", "o", "m", "e">>, <<"K", " ", "x">>, <<"x">>}
GateAbstracts == {None, <<"a", " ", "k">>}
GateParagraphs == {<<>>, << <<"x">> >>, << <<"x">>, <<"K">> >>}
GateKeywords == {<<>>, << <<"k">> >>, << <<"e">>, <<"k", " ", "x">> >>}

GateInit ==
    /\ gate_in = [spider |-> "none", keyword_patterns |-> <<>>,
                  page |-> [title |-> None, abstract |-> None, paragraphs |-> <<>>]]
    /\ gate_out = "none"

\* parse reaches the keyword filter for a page that is neither in the ledger nor stored
GatePage(sp, keyword_patterns, page) ==
    /\ gate_in' = [spider |-> sp, keyword_patterns |-> keyword_patterns, page |-> page]
    /\ gate_out' = Gate(sp, keyword_patterns, page)

GateNext ==
    /\ \E sp \in {"research", "seed"}, keyword_patterns \in GateKeywords, title \in GateTitles,
          abstract \in GateAbstracts, paragraphs \in GateParagraphs :
            GatePage(sp, keyword_patterns,
                     [title |-> title, abstract |-> abstract, paragraphs |-> paragraphs])
    /\ UNCHANGED <<dedupVars, fetchVars, crawlVars, handlerVars, candVars, scoreVars, linkVars>>

vars == <<dedupVars, fetchVars, crawlVars, handlerVars, candVars, scoreVars, linkVars, gateVars>>

Init == DedupInit /\ FetchInit /\ CrawlInit /\ HandlerInit /\ CandInit /\ ScoreInit /\ LinkInit /\ GateInit

DedupNext ==
    \/ /\ \E metadata \in Candidates, check_title \in BOOLEAN : ResolveInsert(metadata, check_title)
       /\ UNCHANGED <<fetchVars, crawlVars, handlerVars, candVars, scoreVars, linkVars, gateVars>>
    \/ /\ \E metadata \in Candidates, check_title \in BOOLEAN : ResolveMerge(metadata, check_title)
       /\ UNCHANGED <<fetchVars, crawlVars, handlerVars, candVars, scoreVars, linkVars, gateVars>>

DedupSpec == Init /\ [][DedupNext]_vars

FetchSpec == Init /\ [][FetchNext]_vars

\* the values of ids and of --ids-file tried
IdsInputs == {IdSet({}), IdSet({2}), BadIds}
IdsFileInputs ==
    {IdsFile(TRUE, <<>>), IdsFile(TRUE, <<"1", "">>), IdsFile(TRUE, <<" 2 ", "x">>),
     IdsFile(FALSE, <<>>)}

\* runs of the fetcher restricted to ids
FetchIdsNext ==
    \/ /\ \E ids \in IdsInputs : StartRunIds(FALSE, NDocs, ids)
       /\ UNCHANGED <<dedupVars, crawlVars, handlerVars, candVars, scoreVars, linkVars, gateVars>>
    \/ /\ \E dry_run \in BOOLEAN, ids_file \in IdsFileInputs : FetchCmd(dry_run, NDocs, ids_file)
       /\ UNCHANGED <<dedupVars, crawlVars, handlerVars, candVars, scoreVars, linkVars, gateVars>>
    \/ FetchStep /\ UNCHANGED <<dedupVars, crawlVars, handlerVars, candVars, scoreVars, linkVars, gateVars>>
    \/ Crash /\ UNCHANGED <<dedupVars, crawlVars, handlerVars, candVars, scoreVars, linkVars, gateVars>>

FetchIdsSpec == Init /\ [][FetchIdsNext]_vars

\* a fetch process that is not killed: each started call keeps taking its next step
FetchRunNext ==
    \/ /\ \E dry_run \in BOOLEAN, stale \in SUBSET Ids, limit \in 1..NDocs :
            StartRun(dry_run, stale, limit)
       /\ UNCHANGED <<dedupVars, crawlVars, handlerVars, candVars, scoreVars, linkVars, gateVars>>
    \/ FetchStep /\ UNCHANGED <<dedupVars, crawlVars, handlerVars, candVars, scoreVars, linkVars, gateVars>>

FetchLiveSpec == Init /\ [][FetchRunNext]_vars /\ WF_vars(FetchStep /\ UNCHANGED <<dedupVars, crawlVars, handlerVars, candVars, scoreVars, linkVars, gateVars>>)

CrawlSpec == Init /\ [][CrawlNext]_vars

HandlerSpec == Init /\ [][HandlerNext]_vars

CandNext ==
    /\ \E landing_url \in UrlSamples, pdf_url \in UrlSamples : BuildCandidates(landing_url, pdf_url)
    /\ UNCHANGED <<dedupVars, fetchVars, crawlVars, handlerVars, scoreVars, linkVars, gateVars>>

CandSpec == Init /\ [][CandNext]_vars

ScoreSpec == Init /\ [][ScoreNext]_vars

LinkSpec == Init /\ [][LinkNext]_vars

GateSpec == Init /\ [][GateNext]_vars

(***************************************************************************)
(* Properties                                                              *)
(***************************************************************************)

\* C1: after any sequence of identity-resolution calls the store holds at most one
\* Document per distinct normalised DOI (trimmed, lowercased) and at most one Document
\* per distinct source_url.
C1_OnePerIdentity ==
    \A i, j \in 1..Len(store) :
        i # j =>
            /\ (Truthy(store[i].doi) /\ Truthy(store[j].doi)
                    => NormDoi(store[i].doi) # NormDoi(store[j].doi))
            /\ (Truthy(store[i].source_url) /\ Truthy(store[j].source_url)
                    => store[i].source_url # store[j].source_url)

\* the 200 PDF responses a file may stem from
PdfResponses == {r \in GetResponses : r.status = 200 /\ r.ct = PdfType}

\* C2: at every point of a fetch run, a kill included, a file at a final path holds
\* the whole body of a GET response with status 200 and a PDF content type.
C2_FinalIsWholePdf ==
    \A d \in Ids : final[d].exists => \E r \in PdfResponses : final[d].data = Body(r)

\* C2 witness: the process was killed while a body was being streamed; the .part file
\* holds a partial body and nothing is at the final path.
C2_Witness ==
    /\ pc = "crashed"
    /\ \E d \in Ids : /\ part[d].exists
                      /\ Len(part[d].data) >= 1
                      /\ Len(part[d].data) < MaxChunks
                      /\ ~final[d].exists

\* the current document's processing in this run is over
DocOver == pc \in {"loop", "done"} /\ log.doc # 0 /\ ~log.skipped

AllRetryable(gets) == \A j \in 1..Len(gets) : gets[j] = "retryable"

\* C3: a GET is re-issued only after a 429/5xx response, a document gets at most 4 GETs
\* in a run, and when every attempt returns 429/5xx it ends with pdf_status "error", no
\* local_path and no file at its final path.
C3_RetryOnlyAfterRetryable ==
    /\ Len(log.gets) <= 4
    /\ \A j \in 2..Len(log.gets) : log.gets[j - 1] = "retryable"
    /\ (DocOver /\ log.gets # <<>> /\ AllRetryable(log.gets))
            => /\ db.docs[log.doc].pdf_status = "error"
               /\ db.docs[log.doc].local_path = NoPath
               /\ ~final[log.doc].exists

ThePdf == [kind |-> "resp", status |-> 200, ct |-> PdfType, n |-> MaxChunks]

\* C4: the fetcher does not give up on a document while it has seen at most three
\* 429/5xx responses in a row, and when these are followed by a 200 PDF the document ends
\* with pdf_status "ok", the body at its final path, and checksum and size of that body.
C4_RetriesThenPdfSucceeds ==
    DocOver =>
        /\ ~(AllRetryable(log.gets) /\ Len(log.gets) \in 1..3)
        /\ (/\ log.gets # <<>>
            /\ AllRetryable(SubSeq(log.gets, 1, Len(log.gets) - 1))
            /\ log.gets[Len(log.gets)] = "pdf")
            => /\ db.docs[log.doc].pdf_status = "ok"
               /\ db.docs[log.doc].local_path = fpath(log.doc)
               /\ final[log.doc] = [exists |-> TRUE, data |-> Body(ThePdf)]
               /\ db.docs[log.doc].checksum_sha256 = Sha256(Body(ThePdf))
               /\ db.docs[log.doc].file_size = Len(Body(ThePdf))

\* C4 witness: three 429/5xx responses, then a 200 PDF, and the document is done
C4_Witness ==
    /\ DocOver
    /\ log.gets = <<"retryable", "retryable", "retryable", "pdf">>
    /\ db.docs[log.doc].pdf_status = "ok"

\* C5: after a GET attempt that ended in a timeout or another exception no further GET
\* is issued for the document in this run.
C5_ExceptionIsTerminal ==
    \A j \in 1..(Len(log.gets) - 1) : log.gets[j] \notin {"timeout", "exception"}

\* C6: a candidate whose HEAD reported a Content-Length over the cap is never the target
\* of a GET, and a document left without a chosen candidate by the size cap gets no GET.
C6_NoGetForOversized ==
    (pc \in {"get", "stream", "finally"} /\ loc.url # NoUrl)
        => /\ loc.url \notin log.big
           /\ ~(loc.chosen_url = NoUrl /\ log.big # {})

\* one step of a run on a document whose target file exists: the document is skipped,
\* its row is marked, no request is made and no file changes (unless the run is killed)
C7_Step ==
    (pc = "loop" /\ loc.i <= Len(rows) /\ final[rows[loc.i]].exists)
        => \/ pc' = "crashed"
           \/ /\ pc' = "loop"
              /\ loc'.i = loc.i + 1
              /\ sess'.docs[rows[loc.i]].local_path = fpath(rows[loc.i])
              /\ sess'.docs[rows[loc.i]].status = "fetched"
              /\ reqs' = reqs /\ log'.heads = 0 /\ log'.gets = <<>>
              /\ final' = final /\ part' = part

\* no HEAD or GET is ever in progress for a document whose target file exists
C7_NoRequest ==
    pc \in {"head", "post_head", "get", "stream"} => ~final[rows[loc.i]].exists

\* C7: a selected document whose target file exists is skipped without HEAD or GET and
\* marked fetched with local_path set, whatever its row says; a run over documents whose
\* files all exist makes no request and writes no file.
C7_ExistingFileIsSkipped == [][C7_Step]_vars /\ []C7_NoRequest

\* C7 witness: a file is on disk, the committed row was never updated, and the run has
\* skipped the document and marked the row
C7_Witness ==
    /\ pc \in {"loop", "done"}
    /\ log.skipped
    /\ db.docs[log.doc].local_path = NoPath
    /\ sess.docs[log.doc].local_path = fpath(log.doc)
    /\ sess.docs[log.doc].status = "fetched"

OkRow(d, row) ==
    row.pdf_status = "ok" =>
        /\ row.local_path = fpath(d)
        /\ row.checksum_sha256 # NoChecksum
        /\ final[d].exists

\* C8: in every store state a Document with pdf_status "ok" has local_path naming its
\* final file, which exists, and a checksum.
C8_OkHasPathAndChecksum ==
    \A d \in Ids : OkRow(d, db.docs[d]) /\ OkRow(d, sess.docs[d])

\* C8 witness: a committed row with pdf_status "ok"
C8_Witness == \E d \in Ids : db.docs[d].pdf_status = "ok"

\* the work on one document is bounded: one HEAD per candidate, at most four GETs
C9_BoundedWork ==
    log.doc # 0 => /\ log.heads <= Len(cand_urls(log.doc))
                   /\ Len(log.gets) <= 4

\* C9: every started call of fetch_arxiv_pdfs reaches its return with every selected
\* document passed, whatever the HEADs and GETs answer; no document takes more than
\* one HEAD per candidate and four GETs.
C9_RunTerminates ==
    /\ (pc = "loop") ~> (pc = "done" /\ loc.i = Len(rows) + 1)
    /\ []C9_BoundedWork

\* C9 witness: a call over every document has returned although its first document
\* failed; the second one was processed after it
C9_Witness ==
    /\ pc = "done"
    /\ Len(rows) = NDocs
    /\ m.failed >= 1
    /\ db.docs[rows[1]].status = "fetch_failed"
    /\ log.doc = rows[Len(rows)]

\* C10: every request the spider yields carries a depth of at most max_depth.
C10_DepthBound == \A r \in yielded : r.depth <= max_depth

\* C11 (one step): a request newly put on the frontier is for a URL that has no entry in
\* the ledger and, within a run, for a URL not requested before in that run
C11_Step ==
    \A r \in frontier' \ frontier :
        /\ r.url \notin ledger
        /\ (frontier # {} => r.url \notin seen)

\* C11: a URL with an entry in the VisitedUrl ledger is never requested again, in the
\* same run or in a later run from the same seeds, and no URL is requested twice
\* within one run.
C11_LedgerUrlNeverRequested == [][C11_Step]_vars

\* C12 (one step): once the budget is reached, with requests still on the frontier,
\* nothing is persisted, nothing is enqueued and the counter stays
C12_Step ==
    (pages_crawled >= max_pages /\ frontier # {})
        => /\ crawlDocs' = crawlDocs
           /\ ledger' = ledger
           /\ yielded' = yielded
           /\ frontier' \subseteq frontier
           /\ pages_crawled' = pages_crawled

\* C12: in one crawl run pages_crawled never exceeds max_pages, and once the budget is
\* reached no further page is persisted and no further link is enqueued, however many
\* requests remain on the frontier.
C12_BudgetRespected == [](pages_crawled <= max_pages) /\ [][C12_Step]_vars

\* C12 witness: the budget is used up, documents were stored, requests are still waiting
C12_Witness ==
    /\ pages_crawled = max_pages
    /\ frontier # {}
    /\ crawlDocs # <<>>

\* C13: two page handlers for the same URL, interleaved in any way at their store
\* accesses, never both insert a Document for that URL.
C13_NoDoubleInsert ==
    \A i, j \in 1..Len(hdocs) : i # j => hdocs[i] # hdocs[j]

\* the content fields merge_document_metadata fills
ContentFields ==
    {"title", "abstract", "authors", "doi", "year", "affiliations", "keywords", "pdf_url"}

\* C14 (one merge): every content field keeps its value if it had one and takes the
\* candidate's non-empty value if it had none; every other Document stays as it was
C14_Step ==
    (calls' = calls + 1 /\ lastCall'.op = "merge") =>
        LET id == lastCall'.id
            cand == lastCall'.cand
        IN /\ Len(store') = Len(store)
           /\ \A i \in 1..Len(store) : i # id => store'[i] = store[i]
           /\ \A f \in ContentFields :
                store'[id][f] = IF Truthy(store[id][f]) THEN store[id][f]
                                ELSE IF Truthy(cand[f]) THEN cand[f]
                                ELSE store[id][f]

C15_Step ==
    (calls' = calls + 1) =>
        LET cand == lastCall'.cand
            hit == lastCall'.id
            merged == lastCall'.op = "merge"
        IN IF DoiMatches(cand) # {} THEN merged /\ hit \in DoiMatches(cand)
           ELSE IF UrlMatches(cand) # {} THEN merged /\ hit \in UrlMatches(cand)
           ELSE IF lastCall'.check_title /\ TitleMatches(cand) # {}
                THEN merged /\ hit \in TitleMatches(cand)
           ELSE lastCall'.op = "insert"

PinnedLatestLiteral(arxiv_id, pdf_url) ==
    LET pinned == Url("pdf", arxiv_id.base, arxiv_id.ver, arxiv_id.style, TRUE)
        latest == Url("pdf", arxiv_id.base, 0, arxiv_id.style, TRUE)
    IN <<pinned, latest>>
       \o (IF pdf_url # NoUrl /\ pdf_url \notin {pinned, latest} THEN <<pdf_url>> ELSE <<>>)

\* C19: for a document whose arXiv identifier carries a version suffix the candidate
\* list is, in order and without repetition, the version-pinned URL, the unversioned
\* latest URL, then the literal pdf_url.
C19_CandidateOrder ==
    LET arxiv_id == guess_arxiv_id(cand_in.landing_url, cand_in.pdf_url) IN
    (arxiv_id # NoId /\ arxiv_id.ver # 0)
        => cand_out = PinnedLatestLiteral(arxiv_id, cand_in.pdf_url)

\* the fields of a row that a dry run must leave alone
Frame(row) == <<row.local_path, row.checksum_sha256, row.file_size, row.status>>

\* C20 (one step of a dry run): no file changes, no GET starts, and the rows of the
\* documents without a target file keep local_path, checksum, size and status
C20_Step ==
    (Running /\ cfg.dry_run) =>
        /\ final' = final
        /\ part' = part
        /\ pc' \notin {"get", "stream", "finally"}
        /\ \A d \in Ids : ~final[d].exists =>
                /\ Frame(sess'.docs[d]) = Frame(sess.docs[d])
                /\ Frame(db'.docs[d]) = Frame(db.docs[d])

\* at the return of a dry run every selected document without a target file is marked
C20_AllMarked ==
    (pc = "done" /\ cfg.dry_run) =>
        \A j \in 1..Len(rows) :
            ~final[rows[j]].exists => db.docs[rows[j]].pdf_status = "dry_run"

\* C20: a dry run issues no GET and creates no file, and every selected document
\* without an existing target file ends with pdf_status "dry_run" while its local_path,
\* checksum_sha256, file_size and status stay as they were.
C20_DryRunWritesNothing == [][C20_Step]_vars /\ []C20_AllMarked

\* C20 witness: a dry run over every document has returned; one of them had failed in
\* an earlier run and is now marked dry_run with its status still fetch_failed
C20_Witness ==
    /\ pc = "done"
    /\ cfg.dry_run
    /\ Len(rows) = NDocs
    /\ \E j \in 1..Len(rows) :
            /\ ~final[rows[j]].exists
            /\ db.docs[rows[j]].pdf_status = "dry_run"
            /\ db.docs[rows[j]].status = "fetch_failed"

\* C16: after score_documents every Document has 0 <= relevance_score <= 1
\* (0 .. ScoreUnit in thousandths), whatever the hits, bonuses and negative
\* hits; and a Document none of whose texts shares a token with the keyword
\* lexicon and that earns no quality bonus has relevance_score exactly 0.
NoOverlapNoBonus(doc, call) ==
    LET lex == build_keyword_lexicon(call.keywords)
        texts == {doc.title, doc.abstract, doc.content,
                  JoinBlank(doc.keywords)}
    IN /\ \A t \in texts : Range(tokenize(t)) \cap lex.uni = {}
       /\ \A t \in texts : Range(bigrams(tokenize(t))) \cap lex.bi = {}
       /\ ~(Truthy(doc.abstract) /\ Len(doc.abstract) > AbstractBonusLen)
       /\ ~Truthy(doc.authors) /\ doc.year = 0 /\ ~Truthy(doc.doi)
       /\ ~Truthy(doc.content) /\ ~Truthy(doc.affiliations)

C16_Step ==
    sruns' # sruns =>
        \A i \in 1..Len(sdocs') :
            /\ sdocs'[i].relevance_score \in 0..ScoreUnit
            /\ NoOverlapNoBonus(sdocs'[i], scalls'[Len(scalls')]) => sdocs'[i].relevance_score = 0

C16_ScoreBounds == [][C16_Step]_vars

\* a scored Document whose weighted hits alone exceed 1 and whose score is 1
C16_Witness ==
    /\ sruns > 0
    /\ \E i \in 1..Len(sdocs) :
          /\ sdocs[i].relevance_score = ScoreUnit
          /\ 6 * score_text(tokenize(sdocs[i].title), bigrams(tokenize(sdocs[i].title)),
                            build_keyword_lexicon(scalls[Len(scalls)].keywords).uni,
                            build_keyword_lexicon(scalls[Len(scalls)].keywords).bi) > 10 * ScoreUnit

\* C17: a second score_documents call with the same keywords, negative keywords
\* and use_fulltext leaves every Document's relevance_score and keywords_found as
\* the first call left them, although the first call also normalised doi, title
\* and abstract.
C17_Step ==
    (sruns >= 1 /\ sruns' = sruns + 1 /\ scalls'[Len(scalls')] = scalls[Len(scalls)]) =>
        \A i \in 1..Len(sdocs) :
            /\ sdocs'[i].relevance_score = sdocs[i].relevance_score
            /\ sdocs'[i].keywords_found = sdocs[i].keywords_found

C17_RescoreSame == [][C17_Step]_vars

\* two calls with the same arguments were made over a Document that matches a keyword
C17_Witness ==
    /\ sruns = 2
    /\ scalls[1] = scalls[2]
    /\ \E i \in 1..Len(sdocs) :
          sdocs[i].relevance_score > 0 /\ sdocs[i].keywords_found # {}

\* C18: for a scored Document D and the negative keywords of the call, D with
\* one more occurrence of a negative keyword in its title, abstract or content
\* file scores no higher than D, everything else being equal.
AddOccurrence(text, kw) == IF Truthy(text) THEN text \o <<" ">> \o kw ELSE kw

WithAddedNegative(doc, kw) ==
    {[doc EXCEPT !.title = AddOccurrence(@, kw)],
     [doc EXCEPT !.abstract = AddOccurrence(@, kw)]}
    \cup (IF doc.content = None THEN {} ELSE {[doc EXCEPT !.content = AddOccurrence(@, kw)]})

C18_NegativeMonotone ==
    sruns >= 1 =>
        LET call == scalls[Len(scalls)]
        IN \A i \in 1..Len(sdocs) : \A kw \in Range(call.negative_keywords) :
              \A e \in WithAddedNegative(sdocs[i], kw) :
                  score_document(e, call.keywords, call.negative_keywords,
                                 call.use_fulltext).relevance_score
                      <= sdocs[i].relevance_score

\* C21 (one step): no visited_urls row disappears, and a row that exists keeps
\* its first_seen.
C21_Step ==
    /\ hledger \subseteq hledger'
    /\ \A u \in hledger : htimes'[u].first_seen = htimes[u].first_seen

\* every row has first_seen <= last_seen
C21_Ordered == \A u \in hledger : htimes[u].first_seen <= htimes[u].last_seen

\* C21: VisitedUrl entries are never deleted; a writer creates the entry with
\* first_seen = last_seen when it is absent and otherwise leaves first_seen
\* alone, so first_seen never changes and first_seen <= last_seen always holds,
\* whichever writers (fetcher, downloader, spiders) touch the entry in whatever
\* order.
C21_FirstSeenStable == [][C21_Step]_vars /\ []C21_Ordered

\* C26: in every store state, also after a kill inside a page handler, the
\* Document of a crawled page is persisted if and only if the page's
\* VisitedUrl entry (the one the spiders write, status "ok") is persisted.
C26_DocumentIffLedger ==
    \A u \in Urls :
        /\ (\E j \in 1..Len(hdocs) : hdocs[j] = u) => u \in hledger
        /\ (u \in hledger /\ htimes[u].status = "ok") => (\E j \in 1..Len(hdocs) : hdocs[j] = u)

\* the host of a netloc: what precedes ":port"
HostOf(netloc) ==
    IF \E i \in 1..Len(netloc) : netloc[i] = ":"
    THEN SubSeq(netloc, 1, (CHOOSE i \in 1..Len(netloc) :
                              netloc[i] = ":" /\ \A j \in 1..(i - 1) : netloc[j] # ":") - 1)
    ELSE netloc

OnAcademicDomain(link) == is_academic_domain(HostOf(link.netloc))

\* at most K requests, and they are the first K of the eligible links in
\* descending score order: nothing left out scores strictly higher than
\* something enqueued, and the requests are handed over in descending order
C22_TopK ==
    lk_calls > 0 =>
        LET sp == lk_in.spider
            elig == {i \in 1..Len(lk_in.anchors) : lk_in.anchors[i].eligible}
            out == {lk_out[k].url : k \in 1..Len(lk_out)}
        IN /\ Len(lk_out) <= LinkLimit(sp)
           /\ Len(lk_out) = Min(Cardinality(elig), LinkLimit(sp))
           /\ Cardinality(out) = Len(lk_out)
           /\ out \subseteq elig
           /\ \A k \in 1..Len(lk_out) : lk_out[k] = lk_in.anchors[lk_out[k].url]
           /\ \A k \in 1..(Len(lk_out) - 1) :
                 LinkScore(sp, lk_out[k]) >= LinkScore(sp, lk_out[k + 1])
           /\ \A v \in {LinkScore(sp, lk_in.anchors[i]) : i \in elig \ out} :
                 \A w \in {LinkScore(sp, lk_out[k]) : k \in 1..Len(lk_out)} : v <= w

\* a link on an academic domain never scores below a link on another domain
C22_AcademicFirst ==
    lk_calls > 0 =>
        LET n == Len(lk_in.anchors)
            academic == {i \in 1..n : OnAcademicDomain(lk_in.anchors[i])}
        IN \A v \in {LinkScore(lk_in.spider, lk_in.anchors[i]) : i \in academic} :
              \A w \in {LinkScore(lk_in.spider, lk_in.anchors[j]) : j \in (1..n) \ academic} :
                  v >= w

\* C22: from each page at most K links (20 in ResearchSpider, 15 in PDFSpider)
\* are enqueued, the first K of the eligible links in descending score order,
\* handed over in that order; no link is enqueued while an eligible link of the
\* page with a strictly higher score is left out; and a link on an academic
\* domain (.edu, .ac.*, .gov, .org) never scores below a link on a
\* non-academic domain.
C22_LinkPriority == C22_TopK /\ C22_AcademicFirst

\* some keyword occurs, in any case, in the title, the abstract or a paragraph
MatchesKeyword(page, keyword_patterns) ==
    \E k \in 1..Len(keyword_patterns) :
        \/ PatternSearch(keyword_patterns[k], OrEmpty(page.title))
        \/ PatternSearch(keyword_patterns[k], OrEmpty(page.abstract))
        \/ PatternSearch(keyword_patterns[k], JoinBlank(page.paragraphs))

\* C23: with keyword patterns configured, a page is persisted only if its
\* title, abstract or paragraph text matches a pattern, and a page whose title
\* is on the spider's skip list is discarded as blocked, whether or not its
\* text matches a keyword.
C23_RelevanceGate ==
    (gate_out # "none" /\ gate_in.keyword_patterns # <<>>) =>
        /\ gate_out = "persist" => MatchesKeyword(gate_in.page, gate_in.keyword_patterns)
        /\ TitleSkipped(gate_in.spider, gate_in.page.title) => gate_out = "blocked"
        /\ gate_out = "persist" =>
              Lower(Strip(OrEmpty(gate_in.page.title))) \notin
                  (IF gate_in.spider = "research" THEN ResearchSkipTitles ELSE SeedSkipTitles)

\* a page with a skip-list title whose text matches a keyword was discarded
C23_Witness ==
    /\ gate_out = "blocked"
    /\ MatchesKeyword(gate_in.page, gate_in.keyword_patterns)

\* max(old, new) over the scores that are not null
MaxScore(old, new) ==
    IF new = NoScore THEN old ELSE IF old = NoScore THEN new ELSE IF old >= new THEN old ELSE new

\* C24: when a candidate is merged into an existing Document the stored
\* relevance_score becomes max(old, new): it is never lowered, a null score is
\* replaced by the candidate's, and several candidates give the same result in
\* any order.
C24_Step ==
    (calls' = calls + 1 /\ lastCall'.op = "merge") =>
        store'[lastCall'.id].relevance_score =
            MaxScore(store[lastCall'.id].relevance_score, lastCall'.cand.relevance_score)

C24_ScoreIsMax == [][C24_Step]_vars

OpenStatuses == {<<"open">>, <<"fulltext_pdf">>}

\* C25 (one merge): oa_status changes only from null, "closed" or
\* "abstract_only" and only to the candidate's "open" or "fulltext_pdf"
C25_Step ==
    (calls' = calls + 1 /\ lastCall'.op = "merge") =>
        LET old == store[lastCall'.id].oa_status
            new == store'[lastCall'.id].oa_status
        IN new # old =>
              /\ old \in {None, <<"closed">>, <<"abstract_only">>}
              /\ lastCall'.cand.oa_status \in OpenStatuses
              /\ new = lastCall'.cand.oa_status

\* a Document whose oa_status is "open" or "fulltext_pdf" keeps it in every step
C25_OpenIsFinal ==
    \A i \in 1..Len(store) :
        store[i].oa_status \in OpenStatuses => store'[i].oa_status = store[i].oa_status

\* C25: merge_document_metadata changes oa_status only when the existing
\* status is null, "closed" or "abstract_only" and the candidate's is "open" or
\* "fulltext_pdf"; so a Document that is "open" or "fulltext_pdf" never changes
\* oa_status again, whatever is merged into it.
C25_OaOnlyUpgrades == [][C25_Step /\ C25_OpenIsFinal]_vars

\* a candidate with another status was merged into an open Document, which kept its status
C25_Witness ==
    /\ lastCall.op = "merge"
    /\ store[lastCall.id].oa_status \in OpenStatuses
    /\ Truthy(lastCall.cand.oa_status)
    /\ lastCall.cand.oa_status # store[lastCall.id].oa_status

\* C27 (one PDFSpider.parse): a Document added in the step has a pdf_url that no
\* other stored Document has, stored before the step or added in it
C27_Step ==
    (spider = "pdf" /\ spider' = "pdf") =>
        \A i, j \in 1..Len(crawlDocs') :
            (i # j /\ j > Len(crawlDocs)) => crawlDocs'[i] # crawlDocs'[j]

\* C27: PDFSpider never persists two Documents with the same pdf_url (which it
\* also stores as source_url): a PDF link that is already stored, or that occurs
\* more than once among the links of one page (anchor hrefs plus the
\* citation_pdf_url meta), yields at most one Document.
C27_OneDocumentPerPdfUrl == [][C27_Step]_vars

\* "attempted" of the metrics record: len(rows)
attempted == Len(rows)

\* C28: in the metrics fetch_arxiv_pdfs returns, each selected document is
\* counted under at most one of downloaded, failed and too_large, so
\* downloaded + failed + too_large <= attempted for every run, also when a GET
\* was retried or an existing file was skipped.
C28_CountedOnce ==
    pc = "done" => m.downloaded + m.failed + m.too_large <= attempted

\* the documents a restricted run may touch: those of ids, or those the lines of
\* the ids file name; none if the restriction cannot be applied
Restricted == cfg.ids.given \/ cfg.ids_file.given
Allowed ==
    IF cfg.ids_file.given
    THEN (IF cfg.ids_file.readable /\ LinesOk(cfg.ids_file.lines)
          THEN LineIds(cfg.ids_file.lines) ELSE {})
    ELSE (IF cfg.ids.ok THEN cfg.ids.set ELSE {})

\* C29: when fetching is restricted to a set of ids, no request is issued for a
\* document outside the set; if the id set is empty or cannot be applied, the
\* run attempts nothing, sends no HEAD or GET and returns all-zero metrics
\* instead of falling back to all rows, also when the ids come from --ids-file.
C29_OnlyListedIds ==
    Restricted =>
        /\ \A j \in 1..Len(rows) : rows[j] \in Allowed
        /\ log.doc # 0 => log.doc \in Allowed
        /\ Allowed = {} => (pc = "done" /\ rows = <<>> /\ m = ZeroMetrics /\ log = NoLog)

\* C30 (one ResearchSpider.parse, on the request the step takes off the frontier):
\* requests are yielded only in a step that stores the Document of that response,
\* and a response whose URL is in the ledger or already stored yields none
C30_Step ==
    (spider = "research" /\ spider' = "research" /\ frontier \ frontier' # {}) =>
        LET req == CHOOSE r \in frontier : r \notin frontier' IN
        /\ (yielded' # yielded \/ ~(frontier' \subseteq frontier)) =>
              /\ crawlDocs' = Append(crawlDocs, req.url)
              /\ req.url \notin ledger
              /\ ~HasDoc(req.url)
              /\ req.url \in ledger'
        /\ (req.url \in ledger \/ HasDoc(req.url)) =>
              /\ yielded' = yielded
              /\ frontier' = frontier \ {req}
              /\ crawlDocs' = crawlDocs

\* C30: ResearchSpider enqueues links only from a response it has just
\* persisted: a response whose URL is in the ledger, already stored,
\* title-blocklisted or failing the keyword check enqueues no link, so a crawl
\* restarted from an already-visited seed processes the seed and enqueues
\* nothing further.
C30_LinksOnlyAfterPersist == [][C30_Step]_vars

\* a crawl restarted from a visited seed, after an earlier crawl had stored the seed
\* and a page it links to: the seed was processed and the crawl is over with no request
C30_Witness ==
    /\ spider = "research"
    /\ start_urls \subseteq ledger
    /\ HasDoc(1) /\ HasDoc(2)
    /\ pages_crawled = 1
    /\ frontier = {}
    /\ yielded = {}

====
